---------------------------- MODULE Spec2Model ----------------------------
(***************************************************************************)
(* Authorization / membership model and slug allocation of the pet         *)
(* profile backend (convex/pets.ts, convex/pets/utils.ts,                  *)
(* convex/pets/files.ts, convex/pets/vaccines.ts).                         *)
(*                                                                         *)
(* Strings that the code inspects character by character (pet names and    *)
(* slugs) are sequences of one-character strings.  Optional arguments      *)
(* (undefined in the source) are sequences of length at most one: <<>> is  *)
(* an omitted argument, <<x>> a supplied one.  Handlers are operators      *)
(* from a database value and the call's arguments to the outcome           *)
(* [code, db]; an action commits the outcome of a successful call, and a   *)
(* call that throws leaves every table as it was.                          *)
(***************************************************************************)
EXTENDS Integers, Sequences, FiniteSets, TLC

VARIABLES
    pets,               \* table pets: petId i is the row pets[i]
    petMembers,         \* table petMembers, in by_petId_and_userId index order
    petFiles,           \* table petFiles, in creation order
    petVaccineRecords,  \* table petVaccineRecords, in creation order
    storage,            \* system table _storage: the ids of the uploaded files
    platformOwners,     \* table platformOwners, in creation order
    last,               \* the last successful mutation: its name, pet, user, role
    inv                 \* createPet invocations in progress (per store operation)

vars == <<pets, petMembers, petFiles, petVaccineRecords, storage, platformOwners,
          last, inv>>

----------------------------------------------------------------------------
(* Bounds of the model *)

MaxPets == 2
MaxSlugPets == 4
MaxFiles == 1
MaxRecords == 1

(* Program constants *)

MaxSlugLength == 50
maxAttempts == 5
MaxNameLength == 100

----------------------------------------------------------------------------
(* Identities and inputs *)

NoUser == "anonymous"       \* getCurrentUserId returned null
Users == {"u1", "u2"}
Callers == Users \cup {NoUser}
UserRank(u) == IF u = "u1" THEN 1 ELSE IF u = "u2" THEN 2 ELSE 3

Roles == {"owner", "guardian", "viewer"}
NoRole == "none"            \* role: null

Rex == <<"R", "e", "x">>
Blank == <<" ", " ">>
LongName == [i \in 1..(MaxNameLength + 1) |-> "a"]
Names == {Rex, Blank, LongName}

\* values of generateRandomSuffix(4), generateRandomSuffix(2) and of
\* Date.now().toString(36).slice(-4)
Suffix4 == {<<"a", "a", "a", "a">>}
Suffix2 == {<<"z", "z">>}
Timestamp4 == {<<"k", "k", "k", "k">>}
SlugSuffix4 == {<<"a", "a", "a", "a">>, <<"b", "7", "b", "7">>}
SlugSuffix2 == {<<"z", "z">>, <<"q", "1">>}

----------------------------------------------------------------------------
(* generateSlug: the string operations of convex/pets/utils.ts *)

UpperCase == <<"A", "B", "C", "D", "E", "F", "G", "H", "I", "J", "K", "L", "M",
               "N", "O", "P", "Q", "R", "S", "T", "U", "V", "W", "X", "Y", "Z">>
LowerCase == <<"a", "b", "c", "d", "e", "f", "g", "h", "i", "j", "k", "l", "m",
               "n", "o", "p", "q", "r", "s", "t", "u", "v", "w", "x", "y", "z">>
DigitChars == {"0", "1", "2", "3", "4", "5", "6", "7", "8", "9"}
SlugChars == {LowerCase[i] : i \in 1..26} \cup DigitChars \cup {"-"}
WhiteSpace == {" ", "\t", "\n"}

toLowerCase(s) ==
    [i \in 1..Len(s) |->
        IF \E k \in 1..26 : UpperCase[k] = s[i]
        THEN LowerCase[CHOOSE k \in 1..26 : UpperCase[k] = s[i]]
        ELSE s[i]]

RECURSIVE DropLeading(_, _)
DropLeading(s, cs) ==
    IF s # <<>> /\ Head(s) \in cs THEN DropLeading(Tail(s), cs) ELSE s

RECURSIVE DropTrailing(_, _)
DropTrailing(s, cs) ==
    IF s # <<>> /\ s[Len(s)] \in cs
    THEN DropTrailing(SubSeq(s, 1, Len(s) - 1), cs)
    ELSE s

trim(s) == DropTrailing(DropLeading(s, WhiteSpace), WhiteSpace)

\* slug.replace(/[\s\-_]+/g, "-"): every maximal run of separators becomes
\* one hyphen (the first character of the run is kept, as a hyphen)
ReplaceSeparators(s) ==
    LET Sep == WhiteSpace \cup {"-", "_"}
        kept == SelectSeq([i \in 1..Len(s) |-> i],
                    LAMBDA i : s[i] \notin Sep \/ i = 1 \/ s[i - 1] \notin Sep)
    IN [k \in 1..Len(kept) |-> IF s[kept[k]] \in Sep THEN "-" ELSE s[kept[k]]]

\* slug.replace(/[^a-z0-9-]/g, "")
RemoveSpecial(s) == SelectSeq(s, LAMBDA c : c \in SlugChars)

\* slug.replace(/^-+|-+$/g, "")
StripHyphens(s) == DropTrailing(DropLeading(s, {"-"}), {"-"})

\* a truncation that leaves the hyphen it may end with
Truncate_NoRestrip(s) ==
    IF Len(s) > MaxSlugLength THEN SubSeq(s, 1, MaxSlugLength) ELSE s

\* if (slug.length > 50) { substring(0, 50); replace(/-+$/, "") }
Truncate(s) ==
    IF Len(s) > MaxSlugLength
    THEN DropTrailing(SubSeq(s, 1, MaxSlugLength), {"-"})
    ELSE s

NormalizeName(name) ==
    Truncate(StripHyphens(RemoveSpecial(ReplaceSeparators(trim(toLowerCase(name))))))

\* randomSuffix is the value of generateRandomSuffix(4)
generateSlug(name, randomSuffix) == NormalizeName(name) \o <<"-">> \o randomSuffix

----------------------------------------------------------------------------
(* The document store *)

PetIds == 1..(MaxPets + 1)          \* v.id("pets") arguments, an absent id included
StorageIds == {"s1", "s2"}          \* v.id("_storage") arguments
Times == 1..3                       \* Date.now() and date arguments

DB == [pets |-> pets, petMembers |-> petMembers, petFiles |-> petFiles,
       petVaccineRecords |-> petVaccineRecords, storage |-> storage,
       platformOwners |-> platformOwners]

Ok(d) == [code |-> "OK", db |-> d]
Fail(code, d) == [code |-> code, db |-> d]

\* ctx.db.get(petId) returns a document
PetExists(d, petId) == petId \in 1..Len(d.pets)

\* ctx.db.delete(id) / removal of the i-th row of a table
RemoveAt(t, i) == SubSeq(t, 1, i - 1) \o SubSeq(t, i + 1, Len(t))

NoMembership == [petId |-> 0, userId |-> NoUser, role |-> NoRole]

\* index by_petId_and_userId: rows ordered by (petId, userId, _creationTime)
KeyLeq(a, b) ==
    \/ a.petId < b.petId
    \/ a.petId = b.petId /\ UserRank(a.userId) <= UserRank(b.userId)

\* ctx.db.insert("petMembers", row)
InsertMember(M, row) ==
    LET n == Cardinality({i \in 1..Len(M) : KeyLeq(M[i], row)})
    IN SubSeq(M, 1, n) \o <<row>> \o SubSeq(M, n + 1, Len(M))

MemberIndexes(M, petId, userId) ==
    {i \in 1..Len(M) : M[i].petId = petId /\ M[i].userId = userId}

\* .withIndex("by_petId_and_userId", ...).first(): index of the row, 0 if none
FirstMemberIndex(M, petId, userId) ==
    IF MemberIndexes(M, petId, userId) = {} THEN 0
    ELSE CHOOSE i \in MemberIndexes(M, petId, userId) :
            \A j \in MemberIndexes(M, petId, userId) : i <= j

FirstMember(M, petId, userId) ==
    IF FirstMemberIndex(M, petId, userId) = 0 THEN NoMembership
    ELSE M[FirstMemberIndex(M, petId, userId)]

\* .withIndex("by_slug", q => q.eq("slug", slug)).first(): petId, 0 if none
FirstPetBySlug(P, slug) ==
    IF \E i \in 1..Len(P) : P[i].slug = slug
    THEN CHOOSE i \in 1..Len(P) :
            P[i].slug = slug /\ \A j \in 1..Len(P) : P[j].slug = slug => i <= j
    ELSE 0

----------------------------------------------------------------------------
(* ensureUniqueSlug: retries[k] is the k-th generateRandomSuffix(2),        *)
(* timestamp is Date.now().toString(36).slice(-4)                          *)

RECURSIVE EnsureLoop(_, _, _, _, _, _)
EnsureLoop(P, baseSlug, slug, attempts, retries, timestamp) ==
    IF attempts < maxAttempts
    THEN IF FirstPetBySlug(P, slug) = 0
         THEN slug
         ELSE EnsureLoop(P, baseSlug, baseSlug \o <<"-">> \o retries[attempts + 1],
                         attempts + 1, retries, timestamp)
    ELSE baseSlug \o <<"-">> \o timestamp

ensureUniqueSlug(P, baseSlug, retries, timestamp) ==
    EnsureLoop(P, baseSlug, baseSlug, 0, retries, timestamp)

\* the random draws of one createPet call
RandomDraws(suffixes, retrySuffixes, timestamps) ==
    [suffix : suffixes, retries : [1..maxAttempts -> retrySuffixes],
     timestamp : timestamps]

Randoms == RandomDraws(Suffix4, Suffix2, Timestamp4)

----------------------------------------------------------------------------
(* Membership resolver *)

\* a resolver that consults the membership row before pet.ownerUserId
getPetMembership_RowFirst(d, petId, userId) ==
    IF ~PetExists(d, petId)
    THEN [role |-> NoRole, isPrimaryOwner |-> FALSE]
    ELSE IF FirstMemberIndex(d.petMembers, petId, userId) # 0
    THEN [role |-> FirstMember(d.petMembers, petId, userId).role,
          isPrimaryOwner |-> FALSE]
    ELSE IF d.pets[petId].ownerUserId = userId
    THEN [role |-> "owner", isPrimaryOwner |-> TRUE]
    ELSE [role |-> NoRole, isPrimaryOwner |-> FALSE]

getPetMembership(d, petId, userId) ==
    IF ~PetExists(d, petId)
    THEN [role |-> NoRole, isPrimaryOwner |-> FALSE]
    ELSE IF d.pets[petId].ownerUserId = userId
    THEN [role |-> "owner", isPrimaryOwner |-> TRUE]
    ELSE [role |-> FirstMember(d.petMembers, petId, userId).role,
          isPrimaryOwner |-> FALSE]

\* an edit check that accepts every role
canEditPet_AnyRole(d, petId, userId) ==
    IF ~PetExists(d, petId) THEN FALSE
    ELSE \/ d.pets[petId].ownerUserId = userId
         \/ FirstMember(d.petMembers, petId, userId).role # NoRole

canEditPet(d, petId, userId) ==
    LET membership == getPetMembership(d, petId, userId)
    IN membership.isPrimaryOwner
       \/ membership.role = "owner"
       \/ membership.role = "guardian"

\* a view check that takes the public path whatever allowPublic is
canViewPet_AlwaysPublic(d, petId, userId, allowPublic) ==
    IF ~PetExists(d, petId) THEN FALSE
    ELSE IF d.pets[petId].allowPublicProfile THEN TRUE
    ELSE IF userId = NoUser THEN FALSE
    ELSE \/ d.pets[petId].ownerUserId = userId
         \/ FirstMember(d.petMembers, petId, userId).role # NoRole

\* a view check that takes an absent pet for a public one
canViewPet_AbsentIsPublic(d, petId, userId, allowPublic) ==
    IF allowPublic /\ (~PetExists(d, petId) \/ d.pets[petId].allowPublicProfile)
    THEN TRUE
    ELSE IF userId = NoUser THEN FALSE
    ELSE LET membership == getPetMembership(d, petId, userId)
         IN membership.isPrimaryOwner \/ membership.role # NoRole

\* userId may be NoUser (null)
canViewPet(d, petId, userId, allowPublic) ==
    IF ~PetExists(d, petId) THEN FALSE
    ELSE IF allowPublic /\ d.pets[petId].allowPublicProfile THEN TRUE
    ELSE IF userId = NoUser THEN FALSE
    ELSE LET membership == getPetMembership(d, petId, userId)
         IN membership.isPrimaryOwner \/ membership.role # NoRole

isPublicPet(pet) == pet.allowPublicProfile = TRUE

----------------------------------------------------------------------------
(* Pet mutations (convex/pets.ts).  Of a pet document the model keeps      *)
(* ownerUserId, name, status, slug, shareSettings.allowPublicProfile,      *)
(* contacts and primaryPhotoFileId; createdAt / updatedAt and the          *)
(* descriptive fields take no part in any decision.                        *)

\* the petData of createPet and createPetInternal and the two inserts
PetData(ownerUserId, args, slug) ==
    [ownerUserId |-> ownerUserId,
     name |-> trim(args.name),
     status |-> "active",
     slug |-> slug,
     allowPublicProfile |-> IF args.shareSettings = <<>> THEN FALSE
                            ELSE args.shareSettings[1],
     contacts |-> IF args.contacts = <<>> THEN <<>> ELSE args.contacts[1],
     primaryPhotoFileId |-> args.primaryPhotoFileId]

InsertPetWithOwner(d, ownerUserId, args, slug) ==
    LET petId == Len(d.pets) + 1
    IN [d EXCEPT !.pets = Append(d.pets, PetData(ownerUserId, args, slug)),
                 !.petMembers = InsertMember(d.petMembers,
                     [petId |-> petId, userId |-> ownerUserId, role |-> "owner"])]

\* args: [name, ownerUserId (optional), shareSettings (optional),
\*        contacts (optional), primaryPhotoFileId (optional)];
\* rnd: the random draws of the call
createPetHandler(d, caller, args, rnd) ==
    IF caller = NoUser THEN Fail("UNAUTHENTICATED", d)
    ELSE IF Len(args.name) = 0 \/ Len(trim(args.name)) = 0
    THEN Fail("VALIDATION_ERROR", d)
    ELSE IF Len(args.name) > MaxNameLength THEN Fail("VALIDATION_ERROR", d)
    ELSE LET ownerUserId == IF args.ownerUserId = <<>> THEN caller
                            ELSE args.ownerUserId[1]
             baseSlug == generateSlug(trim(args.name), rnd.suffix)
             slug == ensureUniqueSlug(d.pets, baseSlug, rnd.retries, rnd.timestamp)
         IN Ok(InsertPetWithOwner(d, ownerUserId, args, slug))

\* args.ownerUserId is required here: a sequence of length one
createPetInternalHandler(d, args, rnd) ==
    IF Len(args.name) = 0 \/ Len(trim(args.name)) = 0
    THEN Fail("VALIDATION_ERROR", d)
    ELSE IF Len(args.name) > MaxNameLength THEN Fail("VALIDATION_ERROR", d)
    ELSE LET baseSlug == generateSlug(trim(args.name), rnd.suffix)
             slug == ensureUniqueSlug(d.pets, baseSlug, rnd.retries, rnd.timestamp)
         IN Ok(InsertPetWithOwner(d, args.ownerUserId[1], args, slug))

\* a patch that derives the slug anew from a changed name
PatchPet_Reslug(pet, updates) ==
    [ownerUserId |-> pet.ownerUserId,
     name |-> IF updates.name = <<>> THEN pet.name ELSE updates.name[1],
     status |-> IF updates.status = <<>> THEN pet.status ELSE updates.status[1],
     slug |-> IF updates.name = <<>> THEN pet.slug
              ELSE NormalizeName(updates.name[1]),
     allowPublicProfile |->
         IF updates.shareSettings = <<>> THEN pet.allowPublicProfile
         ELSE updates.shareSettings[1],
     contacts |-> IF updates.contacts = <<>> THEN pet.contacts
                  ELSE updates.contacts[1],
     primaryPhotoFileId |->
         IF updates.primaryPhotoFileId = <<>> THEN pet.primaryPhotoFileId
         ELSE updates.primaryPhotoFileId]

\* ctx.db.patch(petId, updates): a field of updates that is <<>> is left alone
PatchPet(pet, updates) ==
    [ownerUserId |-> pet.ownerUserId,
     name |-> IF updates.name = <<>> THEN pet.name ELSE updates.name[1],
     status |-> IF updates.status = <<>> THEN pet.status ELSE updates.status[1],
     slug |-> pet.slug,
     allowPublicProfile |->
         IF updates.shareSettings = <<>> THEN pet.allowPublicProfile
         ELSE updates.shareSettings[1],
     contacts |-> IF updates.contacts = <<>> THEN pet.contacts
                  ELSE updates.contacts[1],
     primaryPhotoFileId |->
         IF updates.primaryPhotoFileId = <<>> THEN pet.primaryPhotoFileId
         ELSE updates.primaryPhotoFileId]

\* updates: [name, status, shareSettings, contacts, primaryPhotoFileId], each
\* optional
updatePetHandler(d, caller, petId, updates) ==
    IF caller = NoUser THEN Fail("UNAUTHENTICATED", d)
    ELSE IF ~canEditPet(d, petId, caller) THEN Fail("UNAUTHORIZED", d)
    ELSE IF ~PetExists(d, petId) THEN Fail("NOT_FOUND", d)
    ELSE IF updates.name # <<>> /\ Len(trim(updates.name[1])) = 0
    THEN Fail("VALIDATION_ERROR", d)
    ELSE IF updates.name # <<>> /\ Len(trim(updates.name[1])) > MaxNameLength
    THEN Fail("VALIDATION_ERROR", d)
    ELSE LET trimmed == [updates EXCEPT !.name =
                            IF updates.name = <<>> THEN <<>>
                            ELSE <<trim(updates.name[1])>>]
         IN Ok([d EXCEPT !.pets[petId] = PatchPet(d.pets[petId], trimmed)])

\* deletePet that deletes the pets row
deletePetHandler_HardDelete(d, caller, petId) ==
    IF caller = NoUser THEN Fail("UNAUTHENTICATED", d)
    ELSE IF ~PetExists(d, petId) THEN Fail("NOT_FOUND", d)
    ELSE IF d.pets[petId].ownerUserId # caller THEN Fail("UNAUTHORIZED", d)
    ELSE Ok([d EXCEPT !.pets = RemoveAt(d.pets, petId)])

deletePetHandler(d, caller, petId) ==
    IF caller = NoUser THEN Fail("UNAUTHENTICATED", d)
    ELSE IF ~PetExists(d, petId) THEN Fail("NOT_FOUND", d)
    ELSE IF d.pets[petId].ownerUserId # caller THEN Fail("UNAUTHORIZED", d)
    ELSE Ok([d EXCEPT !.pets[petId].status = "archived"])

deletePetInternalHandler(d, petId) ==
    IF ~PetExists(d, petId) THEN Fail("NOT_FOUND", d)
    ELSE Ok([d EXCEPT !.pets[petId].status = "archived"])

----------------------------------------------------------------------------
(* Membership mutations (convex/pets.ts) *)

\* addPetMember without the lookup of an existing membership
addPetMemberHandler_NoLookup(d, caller, petId, userId, role) ==
    IF caller = NoUser THEN Fail("UNAUTHENTICATED", d)
    ELSE IF ~canEditPet(d, petId, caller) THEN Fail("UNAUTHORIZED", d)
    ELSE IF ~PetExists(d, petId) THEN Fail("NOT_FOUND", d)
    ELSE IF d.pets[petId].ownerUserId = userId THEN Fail("INVALID_OPERATION", d)
    ELSE Ok([d EXCEPT !.petMembers = InsertMember(d.petMembers,
                [petId |-> petId, userId |-> userId, role |-> role])])

addPetMemberHandler(d, caller, petId, userId, role) ==
    IF caller = NoUser THEN Fail("UNAUTHENTICATED", d)
    ELSE IF ~canEditPet(d, petId, caller) THEN Fail("UNAUTHORIZED", d)
    ELSE IF FirstMemberIndex(d.petMembers, petId, userId) # 0
    THEN Fail("DUPLICATE", d)
    ELSE IF ~PetExists(d, petId) THEN Fail("NOT_FOUND", d)
    ELSE IF d.pets[petId].ownerUserId = userId THEN Fail("INVALID_OPERATION", d)
    ELSE Ok([d EXCEPT !.petMembers = InsertMember(d.petMembers,
                [petId |-> petId, userId |-> userId, role |-> role])])

\* removePetMember that deletes the first membership row of the pet
removePetMemberHandler_FirstOfPet(d, caller, petId, userId) ==
    IF caller = NoUser THEN Fail("UNAUTHENTICATED", d)
    ELSE IF ~canEditPet(d, petId, caller) THEN Fail("UNAUTHORIZED", d)
    ELSE IF ~PetExists(d, petId) THEN Fail("NOT_FOUND", d)
    ELSE IF d.pets[petId].ownerUserId = userId THEN Fail("INVALID_OPERATION", d)
    ELSE IF FirstMemberIndex(d.petMembers, petId, userId) = 0
    THEN Fail("NOT_FOUND", d)
    ELSE Ok([d EXCEPT !.petMembers =
                RemoveAt(d.petMembers,
                    CHOOSE i \in 1..Len(d.petMembers) :
                        /\ d.petMembers[i].petId = petId
                        /\ \A j \in 1..(i - 1) : d.petMembers[j].petId # petId)])

\* removePetMember without the primary-owner guard
removePetMemberHandler_NoOwnerGuard(d, caller, petId, userId) ==
    IF caller = NoUser THEN Fail("UNAUTHENTICATED", d)
    ELSE IF ~canEditPet(d, petId, caller) THEN Fail("UNAUTHORIZED", d)
    ELSE IF ~PetExists(d, petId) THEN Fail("NOT_FOUND", d)
    ELSE IF FirstMemberIndex(d.petMembers, petId, userId) = 0
    THEN Fail("NOT_FOUND", d)
    ELSE Ok([d EXCEPT !.petMembers =
                RemoveAt(d.petMembers, FirstMemberIndex(d.petMembers, petId, userId))])

removePetMemberHandler(d, caller, petId, userId) ==
    IF caller = NoUser THEN Fail("UNAUTHENTICATED", d)
    ELSE IF ~canEditPet(d, petId, caller) THEN Fail("UNAUTHORIZED", d)
    ELSE IF ~PetExists(d, petId) THEN Fail("NOT_FOUND", d)
    ELSE IF d.pets[petId].ownerUserId = userId THEN Fail("INVALID_OPERATION", d)
    ELSE IF FirstMemberIndex(d.petMembers, petId, userId) = 0
    THEN Fail("NOT_FOUND", d)
    ELSE Ok([d EXCEPT !.petMembers =
                RemoveAt(d.petMembers, FirstMemberIndex(d.petMembers, petId, userId))])

updatePetMemberRoleHandler(d, caller, petId, userId, newRole) ==
    IF caller = NoUser THEN Fail("UNAUTHENTICATED", d)
    ELSE IF ~canEditPet(d, petId, caller) THEN Fail("UNAUTHORIZED", d)
    ELSE IF FirstMemberIndex(d.petMembers, petId, userId) = 0
    THEN Fail("NOT_FOUND", d)
    ELSE Ok([d EXCEPT !.petMembers[FirstMemberIndex(d.petMembers, petId, userId)].role
                          = newRole])

----------------------------------------------------------------------------
(* Emergency contacts (convex/pets.ts).  A contact is [name, preferred];   *)
(* contactIndex counts from 0 as in the source.                            *)

MaxContactsPerPet == 5

addPetContactHandler(d, caller, petId, contact) ==
    IF caller = NoUser THEN Fail("UNAUTHENTICATED", d)
    ELSE IF ~canEditPet(d, petId, caller) THEN Fail("UNAUTHORIZED", d)
    ELSE IF ~PetExists(d, petId) THEN Fail("NOT_FOUND", d)
    ELSE IF Len(d.pets[petId].contacts) >= MaxContactsPerPet
    THEN Fail("VALIDATION_ERROR", d)
    ELSE Ok([d EXCEPT !.pets[petId].contacts = Append(d.pets[petId].contacts, contact)])

\* updates: [name (optional), preferred (optional)]
updatePetContactHandler(d, caller, petId, contactIndex, updates) ==
    IF caller = NoUser THEN Fail("UNAUTHENTICATED", d)
    ELSE IF ~canEditPet(d, petId, caller) THEN Fail("UNAUTHORIZED", d)
    ELSE IF ~PetExists(d, petId) THEN Fail("NOT_FOUND", d)
    ELSE IF contactIndex < 0 \/ contactIndex >= Len(d.pets[petId].contacts)
    THEN Fail("VALIDATION_ERROR", d)
    ELSE LET old == d.pets[petId].contacts[contactIndex + 1]
         IN Ok([d EXCEPT !.pets[petId].contacts[contactIndex + 1] =
                    [name |-> IF updates.name = <<>> THEN old.name
                              ELSE updates.name[1],
                     preferred |-> IF updates.preferred = <<>> THEN old.preferred
                                   ELSE updates.preferred[1]]])

removePetContactHandler(d, caller, petId, contactIndex) ==
    IF caller = NoUser THEN Fail("UNAUTHENTICATED", d)
    ELSE IF ~canEditPet(d, petId, caller) THEN Fail("UNAUTHORIZED", d)
    ELSE IF ~PetExists(d, petId) THEN Fail("NOT_FOUND", d)
    ELSE IF contactIndex < 0 \/ contactIndex >= Len(d.pets[petId].contacts)
    THEN Fail("VALIDATION_ERROR", d)
    ELSE Ok([d EXCEPT !.pets[petId].contacts =
                RemoveAt(d.pets[petId].contacts, contactIndex + 1)])

----------------------------------------------------------------------------
(* File and vaccine-record mutations (convex/pets/files.ts,                *)
(* convex/pets/vaccines.ts).  A nullable field is <<>> (null) or <<x>>;    *)
(* an optional nullable argument is <<>> (undefined), <<<<>>>> (null) or   *)
(* <<<<x>>>>.                                                              *)

\* args: [petId, storageId, kind, docType (optional nullable),
\*        visibility (optional)]
addPetFileHandler(d, caller, args) ==
    IF caller = NoUser THEN Fail("UNAUTHENTICATED", d)
    ELSE IF ~canEditPet(d, args.petId, caller) THEN Fail("UNAUTHORIZED", d)
    ELSE IF args.storageId \notin d.storage THEN Fail("NOT_FOUND", d)
    ELSE IF args.kind = "document" /\ (args.docType = <<>> \/ args.docType = << <<>> >>)
    THEN Fail("VALIDATION_ERROR", d)
    ELSE IF args.kind = "photo" /\ args.docType # <<>>
    THEN Fail("VALIDATION_ERROR", d)
    ELSE LET visibility ==
                 IF args.visibility # <<>> THEN args.visibility[1]
                 ELSE IF args.kind = "photo" THEN "public" ELSE "private"
             row == [petId |-> args.petId,
                     fileId |-> args.storageId,
                     kind |-> args.kind,
                     docType |-> IF args.kind = "document" THEN args.docType[1]
                                 ELSE <<>>,
                     visibility |-> visibility]
             inserted == [d EXCEPT !.petFiles = Append(d.petFiles, row)]
         IN IF args.kind = "photo" /\ PetExists(d, args.petId)
               /\ d.pets[args.petId].primaryPhotoFileId = <<>>
            THEN Ok([inserted EXCEPT
                        !.pets[args.petId].primaryPhotoFileId = <<args.storageId>>])
            ELSE Ok(inserted)

\* args: [petId, administeredAt, expiresAt (optional nullable),
\*        documentFileId (optional nullable)]; now is Date.now()
addVaccineRecordHandler(d, caller, args, now) ==
    IF caller = NoUser THEN Fail("UNAUTHENTICATED", d)
    ELSE IF ~canEditPet(d, args.petId, caller) THEN Fail("UNAUTHORIZED", d)
    ELSE IF args.administeredAt > now THEN Fail("VALIDATION_ERROR", d)
    ELSE IF args.expiresAt # <<>> /\ args.expiresAt # << <<>> >>
            /\ args.expiresAt[1][1] <= args.administeredAt
    THEN Fail("VALIDATION_ERROR", d)
    ELSE IF args.documentFileId # <<>> /\ args.documentFileId # << <<>> >>
            /\ args.documentFileId[1][1] \notin d.storage
    THEN Fail("NOT_FOUND", d)
    ELSE Ok([d EXCEPT !.petVaccineRecords = Append(d.petVaccineRecords,
                [petId |-> args.petId,
                 administeredAt |-> args.administeredAt,
                 expiresAt |-> IF args.expiresAt = <<>> THEN <<>>
                               ELSE args.expiresAt[1],
                 documentFileId |-> IF args.documentFileId = <<>> THEN <<>>
                                    ELSE args.documentFileId[1]])])

\* A deleted petFiles / petVaccineRecords row keeps its place in the table
\* (an _id is never given to another document) and belongs to no pet.
DeletedFile == [petId |-> 0, fileId |-> "none", kind |-> "none", docType |-> <<>>,
                visibility |-> "none"]
DeletedRecord == [petId |-> 0, administeredAt |-> 0, expiresAt |-> <<>>,
                  documentFileId |-> <<>>]

\* ctx.db.get(id) of a petFiles / petVaccineRecords id returns a document
FileExists(d, id) == id \in 1..Len(d.petFiles) /\ d.petFiles[id] # DeletedFile
RecordExists(d, id) ==
    id \in 1..Len(d.petVaccineRecords) /\ d.petVaccineRecords[id] # DeletedRecord

setPrimaryPhotoHandler(d, caller, petId, fileId) ==
    IF caller = NoUser THEN Fail("UNAUTHENTICATED", d)
    ELSE IF ~canEditPet(d, petId, caller) THEN Fail("UNAUTHORIZED", d)
    ELSE IF fileId \notin d.storage THEN Fail("NOT_FOUND", d)
    ELSE IF ~\E i \in 1..Len(d.petFiles) :
                d.petFiles[i].petId = petId /\ d.petFiles[i].fileId = fileId
    THEN Fail("VALIDATION_ERROR", d)
    ELSE Ok([d EXCEPT !.pets[petId].primaryPhotoFileId = <<fileId>>])

\* the first row of index by_petId_and_kind for (petId, "photo") whose _id is
\* not fileId: its index, 0 if there is none
NextPhoto(d, petId, fileId) ==
    LET photos == {i \in 1..Len(d.petFiles) :
                      /\ d.petFiles[i].petId = petId
                      /\ d.petFiles[i].kind = "photo"
                      /\ i # fileId}
    IN IF photos = {} THEN 0
       ELSE CHOOSE i \in photos : \A j \in photos : i <= j

\* args: [petId, fileId (a petFiles id), deleteStorage (optional)]
removePetFileHandler(d, caller, args) ==
    IF caller = NoUser THEN Fail("UNAUTHENTICATED", d)
    ELSE IF ~canEditPet(d, args.petId, caller) THEN Fail("UNAUTHORIZED", d)
    ELSE IF ~FileExists(d, args.fileId) THEN Fail("NOT_FOUND", d)
    ELSE IF d.petFiles[args.fileId].petId # args.petId
    THEN Fail("VALIDATION_ERROR", d)
    ELSE LET petFile == d.petFiles[args.fileId]
             stored == IF args.deleteStorage = <<TRUE>>
                       THEN d.storage \ {petFile.fileId}
                       ELSE d.storage
             next == NextPhoto(d, args.petId, args.fileId)
             primary ==
                 IF d.pets[args.petId].primaryPhotoFileId = <<petFile.fileId>>
                 THEN IF next = 0 THEN <<>> ELSE <<d.petFiles[next].fileId>>
                 ELSE d.pets[args.petId].primaryPhotoFileId
         IN Ok([d EXCEPT !.storage = stored,
                         !.pets[args.petId].primaryPhotoFileId = primary,
                         !.petFiles[args.fileId] = DeletedFile])

\* updateFileVisibility that loads the file before it requires a user
updateFileVisibilityHandler_LoadFirst(d, caller, fileId, visibility) ==
    IF ~FileExists(d, fileId) THEN Fail("NOT_FOUND", d)
    ELSE IF caller = NoUser THEN Fail("UNAUTHENTICATED", d)
    ELSE IF ~canEditPet(d, d.petFiles[fileId].petId, caller)
    THEN Fail("UNAUTHORIZED", d)
    ELSE Ok([d EXCEPT !.petFiles[fileId].visibility = visibility])

updateFileVisibilityHandler(d, caller, fileId, visibility) ==
    IF caller = NoUser THEN Fail("UNAUTHENTICATED", d)
    ELSE IF ~FileExists(d, fileId) THEN Fail("NOT_FOUND", d)
    ELSE IF ~canEditPet(d, d.petFiles[fileId].petId, caller)
    THEN Fail("UNAUTHORIZED", d)
    ELSE Ok([d EXCEPT !.petFiles[fileId].visibility = visibility])

\* updateVaccineRecord that compares the dates only when the call gives a
\* new expiry
updateVaccineRecordHandler_GivenExpiryOnly(d, caller, recordId, updates, now) ==
    IF caller = NoUser THEN Fail("UNAUTHENTICATED", d)
    ELSE IF ~RecordExists(d, recordId) THEN Fail("NOT_FOUND", d)
    ELSE IF ~canEditPet(d, d.petVaccineRecords[recordId].petId, caller)
    THEN Fail("UNAUTHORIZED", d)
    ELSE LET record == d.petVaccineRecords[recordId]
             administeredAt == IF updates.administeredAt = <<>>
                               THEN record.administeredAt
                               ELSE updates.administeredAt[1]
         IN IF updates.administeredAt # <<>> /\ administeredAt > now
            THEN Fail("VALIDATION_ERROR", d)
            ELSE IF updates.expiresAt # <<>> /\ updates.expiresAt # << <<>> >>
                    /\ updates.expiresAt[1][1] <= administeredAt
            THEN Fail("VALIDATION_ERROR", d)
            ELSE Ok([d EXCEPT !.petVaccineRecords[recordId] =
                        [petId |-> record.petId,
                         administeredAt |-> administeredAt,
                         expiresAt |-> IF updates.expiresAt = <<>>
                                       THEN record.expiresAt
                                       ELSE updates.expiresAt[1],
                         documentFileId |-> IF updates.documentFileId = <<>>
                                            THEN record.documentFileId
                                            ELSE updates.documentFileId[1]]])

\* updates: [administeredAt (optional), expiresAt (optional nullable),
\*           documentFileId (optional nullable)]; now is Date.now()
updateVaccineRecordHandler(d, caller, recordId, updates, now) ==
    IF caller = NoUser THEN Fail("UNAUTHENTICATED", d)
    ELSE IF ~RecordExists(d, recordId) THEN Fail("NOT_FOUND", d)
    ELSE IF ~canEditPet(d, d.petVaccineRecords[recordId].petId, caller)
    THEN Fail("UNAUTHORIZED", d)
    ELSE LET record == d.petVaccineRecords[recordId]
             administeredAt == IF updates.administeredAt = <<>>
                               THEN record.administeredAt
                               ELSE updates.administeredAt[1]
             \* args.updates.expiresAt ?? record.expiresAt
             expiresAt == IF updates.expiresAt = <<>> \/ updates.expiresAt = << <<>> >>
                          THEN record.expiresAt
                          ELSE updates.expiresAt[1]
         IN IF updates.administeredAt # <<>> /\ administeredAt > now
            THEN Fail("VALIDATION_ERROR", d)
            ELSE IF expiresAt # <<>> /\ expiresAt[1] <= administeredAt
            THEN Fail("VALIDATION_ERROR", d)
            ELSE IF updates.documentFileId # <<>>
                    /\ updates.documentFileId # << <<>> >>
                    /\ updates.documentFileId[1][1] \notin d.storage
            THEN Fail("NOT_FOUND", d)
            ELSE Ok([d EXCEPT !.petVaccineRecords[recordId] =
                        [petId |-> record.petId,
                         administeredAt |-> administeredAt,
                         expiresAt |-> IF updates.expiresAt = <<>>
                                       THEN record.expiresAt
                                       ELSE updates.expiresAt[1],
                         documentFileId |-> IF updates.documentFileId = <<>>
                                            THEN record.documentFileId
                                            ELSE updates.documentFileId[1]]])

\* deleteVaccineRecord that asks for view instead of edit capability
deleteVaccineRecordHandler_ViewCheck(d, caller, recordId) ==
    IF caller = NoUser THEN Fail("UNAUTHENTICATED", d)
    ELSE IF ~RecordExists(d, recordId) THEN Fail("NOT_FOUND", d)
    ELSE IF ~canViewPet(d, d.petVaccineRecords[recordId].petId, caller, FALSE)
    THEN Fail("UNAUTHORIZED", d)
    ELSE Ok([d EXCEPT !.petVaccineRecords[recordId] = DeletedRecord])

deleteVaccineRecordHandler(d, caller, recordId) ==
    IF caller = NoUser THEN Fail("UNAUTHENTICATED", d)
    ELSE IF ~RecordExists(d, recordId) THEN Fail("NOT_FOUND", d)
    ELSE IF ~canEditPet(d, d.petVaccineRecords[recordId].petId, caller)
    THEN Fail("UNAUTHORIZED", d)
    ELSE Ok([d EXCEPT !.petVaccineRecords[recordId] = DeletedRecord])

----------------------------------------------------------------------------
(* Platform owners (convex/pets.ts, convex/schema.ts).  The outcome of     *)
(* setPlatformOwner carries the action the handler reports.                *)

\* .withIndex("by_userId", q => q.eq("userId", userId)).first(): index, 0 if none
FirstPlatformOwner(d, userId) ==
    LET rows == {i \in 1..Len(d.platformOwners) :
                    d.platformOwners[i].userId = userId}
    IN IF rows = {} THEN 0 ELSE CHOOSE i \in rows : \A j \in rows : i <= j

\* userId may be NoUser (no userId given and no current user)
isPlatformOwner(d, userId) ==
    IF userId = NoUser THEN FALSE ELSE FirstPlatformOwner(d, userId) # 0

Done(action, d) == [code |-> "OK", action |-> action, db |-> d]

\* setPlatformOwner that inserts without looking for an existing row
setPlatformOwnerHandler_NoLookup(d, userId, isOwner) ==
    IF isOwner
    THEN Done("added", [d EXCEPT !.platformOwners =
                           Append(d.platformOwners, [userId |-> userId])])
    ELSE IF FirstPlatformOwner(d, userId) = 0 THEN Done("not_found", d)
    ELSE Done("removed", [d EXCEPT !.platformOwners =
                             RemoveAt(d.platformOwners, FirstPlatformOwner(d, userId))])

setPlatformOwnerHandler(d, userId, isOwner) ==
    IF isOwner
    THEN IF FirstPlatformOwner(d, userId) # 0 THEN Done("already_exists", d)
         ELSE Done("added", [d EXCEPT !.platformOwners =
                                Append(d.platformOwners, [userId |-> userId])])
    ELSE IF FirstPlatformOwner(d, userId) = 0 THEN Done("not_found", d)
    ELSE Done("removed", [d EXCEPT !.platformOwners =
                             RemoveAt(d.platformOwners, FirstPlatformOwner(d, userId))])

----------------------------------------------------------------------------
(* Queries.  A query's outcome is [code, value]; value is the sequence of  *)
(* the documents returned (<<>> for null and for a thrown error).  A pet   *)
(* document is returned with its _id.                                      *)

Return(v) == [code |-> "OK", value |-> v]
Throw(code) == [code |-> code, value |-> <<>>]

PetDoc(d, petId) == [_id |-> petId, doc |-> d.pets[petId]]

\* Array.prototype.sort with a numeric comparator is stable: rows in
\* ascending order of keys, rows of equal key in their former order
StableSort(rows, keys) ==
    LET pos(i) == 1 + Cardinality({j \in 1..Len(rows) :
                        keys[j] < keys[i] \/ (keys[j] = keys[i] /\ j < i)})
    IN [k \in 1..Len(rows) |-> rows[CHOOSE i \in 1..Len(rows) : pos(i) = k]]

getPetById(d, caller, petId) ==
    IF ~PetExists(d, petId) THEN Return(<<>>)
    ELSE IF ~canViewPet(d, petId, caller, FALSE) THEN Throw("UNAUTHORIZED")
    ELSE Return(<<PetDoc(d, petId)>>)

getPetBySlug(d, caller, slug) ==
    LET petId == FirstPetBySlug(d.pets, slug) IN
    IF petId = 0 THEN Return(<<>>)
    ELSE IF isPublicPet(d.pets[petId]) THEN Return(<<PetDoc(d, petId)>>)
    ELSE IF caller = NoUser THEN Throw("UNAUTHORIZED")
    ELSE IF ~canViewPet(d, petId, caller, FALSE) THEN Throw("UNAUTHORIZED")
    ELSE Return(<<PetDoc(d, petId)>>)

\* the entries are in the order of the petMembers table of the model
getPetMembers(d, caller, petId) ==
    IF caller = NoUser THEN Throw("UNAUTHENTICATED")
    ELSE IF ~canViewPet(d, petId, caller, FALSE) THEN Throw("UNAUTHORIZED")
    ELSE IF ~PetExists(d, petId) THEN Throw("NOT_FOUND")
    ELSE LET members == SelectSeq(d.petMembers, LAMBDA m : m.petId = petId)
         IN Return(<<[userId |-> d.pets[petId].ownerUserId, role |-> "owner",
                      isPrimaryOwner |-> TRUE]>>
                   \o [i \in 1..Len(members) |->
                          [userId |-> members[i].userId, role |-> members[i].role,
                           isPrimaryOwner |-> FALSE]])

\* includePrivate is optional
getPetFiles(d, caller, petId, includePrivate) ==
    IF caller = NoUser THEN Throw("UNAUTHENTICATED")
    ELSE IF ~canViewPet(d, petId, caller, FALSE) THEN Throw("UNAUTHORIZED")
    ELSE LET files == SelectSeq(d.petFiles, LAMBDA f : f.petId = petId)
         IN IF includePrivate = <<TRUE>> THEN Return(files)
            ELSE Return(SelectSeq(files, LAMBDA f : f.visibility = "public"))

getPetFilesByKind(d, caller, petId, kind, includePrivate) ==
    IF caller = NoUser THEN Throw("UNAUTHENTICATED")
    ELSE IF ~canViewPet(d, petId, caller, FALSE) THEN Throw("UNAUTHORIZED")
    ELSE LET files == SelectSeq(d.petFiles,
                          LAMBDA f : f.petId = petId /\ f.kind = kind)
         IN IF includePrivate = <<TRUE>> THEN Return(files)
            ELSE Return(SelectSeq(files, LAMBDA f : f.visibility = "public"))

getPetDocuments(d, caller, petId) ==
    IF caller = NoUser THEN Throw("UNAUTHENTICATED")
    ELSE IF ~canViewPet(d, petId, caller, FALSE) THEN Throw("UNAUTHORIZED")
    ELSE Return(SelectSeq(d.petFiles,
                    LAMBDA f : f.petId = petId /\ f.kind = "document"))

getPetVaccineRecords(d, caller, petId) ==
    IF caller = NoUser THEN Throw("UNAUTHENTICATED")
    ELSE IF ~canViewPet(d, petId, caller, FALSE) THEN Throw("UNAUTHORIZED")
    ELSE LET records == SelectSeq(d.petVaccineRecords, LAMBDA r : r.petId = petId)
         IN Return(StableSort(records,
                       [i \in 1..Len(records) |-> 0 - records[i].administeredAt]))

DefaultDaysAhead == 30

\* getUpcomingExpirations without the view check on the petId branch
getUpcomingExpirations_NoViewCheck(d, caller, petId, daysAhead, now) ==
    LET threshold == now + (IF daysAhead = <<>> THEN DefaultDaysAhead
                            ELSE daysAhead[1])
        ownedPets == {i \in 1..Len(d.pets) : d.pets[i].ownerUserId = caller}
        memberPets == {d.petMembers[i].petId : i \in
                          {j \in 1..Len(d.petMembers) :
                              d.petMembers[j].userId = caller}}
        records == IF petId # <<>>
                   THEN SelectSeq(d.petVaccineRecords, LAMBDA r : r.petId = petId[1])
                   ELSE SelectSeq(d.petVaccineRecords,
                            LAMBDA r : r.petId \in ownedPets \cup memberPets)
        expiringRecords == SelectSeq(records,
                               LAMBDA r : r.expiresAt # <<>>
                                          /\ r.expiresAt[1] <= threshold)
    IN IF caller = NoUser THEN Throw("UNAUTHENTICATED")
       ELSE Return(StableSort(expiringRecords,
                       [i \in 1..Len(expiringRecords) |->
                           expiringRecords[i].expiresAt[1]]))

\* petId and daysAhead are optional; now is Date.now(); dates count days
getUpcomingExpirations(d, caller, petId, daysAhead, now) ==
    LET threshold == now + (IF daysAhead = <<>> THEN DefaultDaysAhead
                            ELSE daysAhead[1])
        ownedPets == {i \in 1..Len(d.pets) : d.pets[i].ownerUserId = caller}
        memberPets == {d.petMembers[i].petId : i \in
                          {j \in 1..Len(d.petMembers) :
                              d.petMembers[j].userId = caller}}
        uniquePetIds == ownedPets \cup memberPets
        records == IF petId # <<>>
                   THEN SelectSeq(d.petVaccineRecords, LAMBDA r : r.petId = petId[1])
                   ELSE SelectSeq(d.petVaccineRecords,
                            LAMBDA r : r.petId \in uniquePetIds)
        expiringRecords == SelectSeq(records,
                               LAMBDA r : r.expiresAt # <<>>
                                          /\ r.expiresAt[1] <= threshold)
    IN IF caller = NoUser THEN Throw("UNAUTHENTICATED")
       ELSE IF petId # <<>> /\ ~canViewPet(d, petId[1], caller, FALSE)
       THEN Throw("UNAUTHORIZED")
       ELSE Return(StableSort(expiringRecords,
                       [i \in 1..Len(expiringRecords) |->
                           expiringRecords[i].expiresAt[1]]))

----------------------------------------------------------------------------
(* State machine: one action per mutation, taken when the call succeeds    *)

Procs == {"a", "b"}     \* concurrent createPet invocations

Idle == [pc |-> "idle", caller |-> NoUser, ownerUserId |-> NoUser,
         args |-> [name |-> <<>>, ownerUserId |-> <<>>, shareSettings |-> <<>>,
                   contacts |-> <<>>, primaryPhotoFileId |-> <<>>],
         baseSlug |-> <<>>, slug |-> <<>>, attempts |-> 0, petId |-> 0]

Called(op, petId, userId, role) ==
    [op |-> op, petId |-> petId, userId |-> userId, role |-> role]

Init ==
    /\ pets = <<>>
    /\ petMembers = <<>>
    /\ petFiles = <<>>
    /\ petVaccineRecords = <<>>
    /\ storage = {}
    /\ platformOwners = <<>>
    /\ last = Called("none", 0, NoUser, NoRole)
    /\ inv = [i \in Procs |-> Idle]

Commit(d) ==
    /\ pets' = d.pets
    /\ petMembers' = d.petMembers
    /\ petFiles' = d.petFiles
    /\ petVaccineRecords' = d.petVaccineRecords
    /\ storage' = d.storage
    /\ platformOwners' = d.platformOwners

CreateArgs(names, owners, shares) ==
    [name : names, ownerUserId : owners, shareSettings : shares,
     contacts : {<<>>}, primaryPhotoFileId : {<<>>}]

UpdateArgs(names, statuses, shares) ==
    [name : names, status : statuses, shareSettings : shares,
     contacts : {<<>>}, primaryPhotoFileId : {<<>>}]

createPet(max, caller, args, rnd) ==
    LET res == createPetHandler(DB, caller, args, rnd) IN
    /\ Len(pets) < max
    /\ res.code = "OK"
    /\ Commit(res.db)
    /\ last' = Called("createPet", Len(pets) + 1,
                      res.db.pets[Len(pets) + 1].ownerUserId, "owner")
    /\ UNCHANGED inv

createPetInternal(max, args, rnd) ==
    LET res == createPetInternalHandler(DB, args, rnd) IN
    /\ Len(pets) < max
    /\ res.code = "OK"
    /\ Commit(res.db)
    /\ last' = Called("createPetInternal", Len(pets) + 1,
                      args.ownerUserId[1], "owner")
    /\ UNCHANGED inv

updatePet(caller, petId, updates) ==
    LET res == updatePetHandler(DB, caller, petId, updates) IN
    /\ res.code = "OK"
    /\ Commit(res.db)
    /\ last' = Called("updatePet", petId, NoUser, NoRole)
    /\ UNCHANGED inv

deletePet(caller, petId) ==
    LET res == deletePetHandler(DB, caller, petId) IN
    /\ res.code = "OK"
    /\ Commit(res.db)
    /\ last' = Called("deletePet", petId, NoUser, NoRole)
    /\ UNCHANGED inv

deletePetInternal(petId) ==
    LET res == deletePetInternalHandler(DB, petId) IN
    /\ res.code = "OK"
    /\ Commit(res.db)
    /\ last' = Called("deletePetInternal", petId, NoUser, NoRole)
    /\ UNCHANGED inv

addPetMember(caller, petId, userId, role) ==
    LET res == addPetMemberHandler(DB, caller, petId, userId, role) IN
    /\ res.code = "OK"
    /\ Commit(res.db)
    /\ last' = Called("addPetMember", petId, userId, role)
    /\ UNCHANGED inv

\* last.role is the role of the membership row that was deleted
removePetMember(caller, petId, userId) ==
    LET res == removePetMemberHandler(DB, caller, petId, userId) IN
    /\ res.code = "OK"
    /\ Commit(res.db)
    /\ last' = Called("removePetMember", petId, userId,
                      FirstMember(petMembers, petId, userId).role)
    /\ UNCHANGED inv

updatePetMemberRole(caller, petId, userId, newRole) ==
    LET res == updatePetMemberRoleHandler(DB, caller, petId, userId, newRole) IN
    /\ res.code = "OK"
    /\ Commit(res.db)
    /\ last' = Called("updatePetMemberRole", petId, userId, newRole)
    /\ UNCHANGED inv

\* the upload workflow of convex/files.ts: a client posts a file to the URL
\* of generateUploadUrl and the storage holds it under a new id
uploadFile(storageId) ==
    /\ storageId \notin storage
    /\ storage' = storage \cup {storageId}
    /\ last' = Called("uploadFile", 0, NoUser, NoRole)
    /\ UNCHANGED <<pets, petMembers, petFiles, petVaccineRecords, platformOwners,
                   inv>>

\* max bounds the petFiles rows of the model
addPetFile(max, caller, args) ==
    LET res == addPetFileHandler(DB, caller, args) IN
    /\ Len(petFiles) < max
    /\ res.code = "OK"
    /\ Commit(res.db)
    /\ last' = Called("addPetFile", args.petId, NoUser, NoRole)
    /\ UNCHANGED inv

addVaccineRecord(caller, args, now) ==
    LET res == addVaccineRecordHandler(DB, caller, args, now) IN
    /\ Len(petVaccineRecords) < MaxRecords
    /\ res.code = "OK"
    /\ Commit(res.db)
    /\ last' = Called("addVaccineRecord", args.petId, NoUser, NoRole)
    /\ UNCHANGED inv

setPrimaryPhoto(caller, petId, fileId) ==
    LET res == setPrimaryPhotoHandler(DB, caller, petId, fileId) IN
    /\ res.code = "OK"
    /\ Commit(res.db)
    /\ last' = Called("setPrimaryPhoto", petId, NoUser, NoRole)
    /\ UNCHANGED inv

removePetFile(caller, args) ==
    LET res == removePetFileHandler(DB, caller, args) IN
    /\ res.code = "OK"
    /\ Commit(res.db)
    /\ last' = Called("removePetFile", args.petId, NoUser, NoRole)
    /\ UNCHANGED inv

updateFileVisibility(caller, fileId, visibility) ==
    LET res == updateFileVisibilityHandler(DB, caller, fileId, visibility) IN
    /\ res.code = "OK"
    /\ Commit(res.db)
    /\ last' = Called("updateFileVisibility", petFiles[fileId].petId, NoUser, NoRole)
    /\ UNCHANGED inv

updateVaccineRecord(caller, recordId, updates, now) ==
    LET res == updateVaccineRecordHandler(DB, caller, recordId, updates, now) IN
    /\ res.code = "OK"
    /\ Commit(res.db)
    /\ last' = Called("updateVaccineRecord", petVaccineRecords[recordId].petId,
                      NoUser, NoRole)
    /\ UNCHANGED inv

deleteVaccineRecord(caller, recordId) ==
    LET res == deleteVaccineRecordHandler(DB, caller, recordId) IN
    /\ res.code = "OK"
    /\ Commit(res.db)
    /\ last' = Called("deleteVaccineRecord", petVaccineRecords[recordId].petId,
                      NoUser, NoRole)
    /\ UNCHANGED inv

\* max bounds the contacts the model gives a pet
addPetContact(max, caller, petId, contact) ==
    LET res == addPetContactHandler(DB, caller, petId, contact) IN
    /\ res.code = "OK"
    /\ Len(pets[petId].contacts) < max
    /\ Commit(res.db)
    /\ last' = Called("addPetContact", petId, NoUser, NoRole)
    /\ UNCHANGED inv

updatePetContact(caller, petId, contactIndex, updates) ==
    LET res == updatePetContactHandler(DB, caller, petId, contactIndex, updates) IN
    /\ res.code = "OK"
    /\ Commit(res.db)
    /\ last' = Called("updatePetContact", petId, NoUser, NoRole)
    /\ UNCHANGED inv

removePetContact(caller, petId, contactIndex) ==
    LET res == removePetContactHandler(DB, caller, petId, contactIndex) IN
    /\ res.code = "OK"
    /\ Commit(res.db)
    /\ last' = Called("removePetContact", petId, NoUser, NoRole)
    /\ UNCHANGED inv

\* last.role tells whether the call was made with isOwner true
setPlatformOwner(userId, isOwner) ==
    LET res == setPlatformOwnerHandler(DB, userId, isOwner) IN
    /\ res.code = "OK"
    /\ Commit(res.db)
    /\ last' = Called("setPlatformOwner", 0, userId,
                      IF isOwner THEN "owner" ELSE NoRole)
    /\ UNCHANGED inv

(* Spec: pets and memberships *)

Next ==
    \/ \E c \in Callers, rnd \in Randoms,
          a \in CreateArgs(Names, {<<>>} \cup {<<u>> : u \in Users}, {<<>>}) :
          createPet(MaxPets, c, a, rnd)
    \/ \E rnd \in Randoms,
          a \in CreateArgs(Names, {<<u>> : u \in Users}, {<<>>}) :
          createPetInternal(MaxPets, a, rnd)
    \/ \E c \in Callers, p \in PetIds,
          u \in UpdateArgs({<<>>}, {<<"active">>, <<"archived">>}, {<<>>}) :
          updatePet(c, p, u)
    \/ \E c \in Callers, p \in PetIds : deletePet(c, p)
    \/ \E p \in PetIds : deletePetInternal(p)
    \/ \E c \in Callers, p \in PetIds, u \in Users, r \in Roles :
          addPetMember(c, p, u, r)
    \/ \E c \in Callers, p \in PetIds, u \in Users :
          removePetMember(c, p, u)
    \/ \E c \in Callers, p \in PetIds, u \in Users, r \in Roles :
          updatePetMemberRole(c, p, u, r)

Spec == Init /\ [][Next]_vars

----------------------------------------------------------------------------
(* Properties of Spec *)

Owner(p) == pets[p].ownerUserId
HasRow(p, u) == MemberIndexes(petMembers, p, u) # {}
ExistingPets == 1..Len(pets)

\* every edit mutation the user calls on the pet throws UNAUTHORIZED and
\* leaves the database as it is
EditCallsUnauthorized(p, u) ==
    /\ \A upd \in UpdateArgs({<<>>, <<Rex>>}, {<<>>, <<"archived">>},
                             {<<>>, <<TRUE>>}) :
          updatePetHandler(DB, u, p, upd) = Fail("UNAUTHORIZED", DB)
    /\ deletePetHandler(DB, u, p) = Fail("UNAUTHORIZED", DB)
    /\ \A v \in Users, r \in Roles :
          /\ addPetMemberHandler(DB, u, p, v, r) = Fail("UNAUTHORIZED", DB)
          /\ updatePetMemberRoleHandler(DB, u, p, v, r) = Fail("UNAUTHORIZED", DB)
    /\ \A v \in Users :
          removePetMemberHandler(DB, u, p, v) = Fail("UNAUTHORIZED", DB)
    /\ \A s \in StorageIds, k \in {"photo", "document"} :
          addPetFileHandler(DB, u,
              [petId |-> p, storageId |-> s, kind |-> k, docType |-> <<>>,
               visibility |-> <<>>]) = Fail("UNAUTHORIZED", DB)
    /\ \A t \in Times :
          addVaccineRecordHandler(DB, u,
              [petId |-> p, administeredAt |-> t, expiresAt |-> <<>>,
               documentFileId |-> <<>>], t) = Fail("UNAUTHORIZED", DB)

\* C1: in every reachable state the primary owner of every pet can edit it
\* and can view it with allowPublic true and with allowPublic false, whatever
\* membership rows exist for the owner and whatever role they carry.
C1_OwnerAlwaysAuthorized ==
    \A p \in ExistingPets :
        /\ canEditPet(DB, p, Owner(p))
        /\ canViewPet(DB, p, Owner(p), TRUE)
        /\ canViewPet(DB, p, Owner(p), FALSE)

\* the owner's own membership row has been demoted to viewer
C1_Witness ==
    \E p \in ExistingPets :
        /\ FirstMember(petMembers, p, Owner(p)).role = "viewer"
        /\ last.op = "updatePetMemberRole"
        /\ canEditPet(DB, p, Owner(p))

\* C2: for an existing pet and a user who is not its primary owner, the user
\* can edit exactly when a membership row of the pair has role owner or
\* guardian, and can view (allowPublic false) exactly when a row of the pair
\* exists.
C2_RoleDecidesCapability ==
    \A p \in ExistingPets, u \in Users :
        u # Owner(p) =>
            /\ canEditPet(DB, p, u) <=>
                   \E i \in MemberIndexes(petMembers, p, u) :
                       petMembers[i].role \in {"owner", "guardian"}
            /\ canViewPet(DB, p, u, FALSE) <=> HasRow(p, u)

\* a viewer who can view and cannot edit, next to a pet the user has no row on
C2_Witness ==
    \E p \in ExistingPets, q \in ExistingPets, u \in Users :
        /\ u # Owner(p) /\ u # Owner(q)
        /\ FirstMember(petMembers, p, u).role = "viewer"
        /\ canViewPet(DB, p, u, FALSE) /\ ~canEditPet(DB, p, u)
        /\ ~HasRow(q, u)
        /\ ~canViewPet(DB, q, u, FALSE) /\ ~canEditPet(DB, q, u)

\* C5: there is at most one petMembers row for each (petId, userId) pair, and
\* addPetMember for a pair that has a row, called by a user who passes the
\* authentication and edit checks, throws DUPLICATE and inserts nothing.
C5_OneRowPerPair ==
    /\ \A i, j \in 1..Len(petMembers) :
          (petMembers[i].petId = petMembers[j].petId
           /\ petMembers[i].userId = petMembers[j].userId) => i = j
    /\ \A p \in ExistingPets, c \in Users, u \in Users, r \in Roles :
          (HasRow(p, u) /\ canEditPet(DB, p, c)) =>
              addPetMemberHandler(DB, c, p, u, r) = Fail("DUPLICATE", DB)

\* a member was added, and adding the same pair again is refused
C5_Witness ==
    /\ last.op = "addPetMember"
    /\ HasRow(last.petId, last.userId)
    /\ addPetMemberHandler(DB, Owner(last.petId), last.petId, last.userId,
                           "guardian").code = "DUPLICATE"

\* C6: no petMembers row has the userId of the primary owner of its pet.
C6_NoOwnerRow ==
    \A i \in 1..Len(petMembers) :
        petMembers[i].userId # Owner(petMembers[i].petId)

\* C7: in the state right after a successful removePetMember(P, U) the user U
\* can neither edit nor view (allowPublic false) P, and in every state a
\* user who is not the primary owner and has no row on P gets UNAUTHORIZED
\* from every edit mutation on P.
C7_RevocationImmediate ==
    /\ last.op = "removePetMember" =>
          /\ ~canEditPet(DB, last.petId, last.userId)
          /\ ~canViewPet(DB, last.petId, last.userId, FALSE)
          /\ EditCallsUnauthorized(last.petId, last.userId)
    /\ \A p \in ExistingPets, u \in Users :
          (u # Owner(p) /\ ~HasRow(p, u)) => EditCallsUnauthorized(p, u)

\* the guardian row of a user who is not the primary owner was just removed
C7_Witness ==
    /\ last.op = "removePetMember"
    /\ last.role = "guardian"
    /\ last.userId # Owner(last.petId)
    /\ ~canEditPet(DB, last.petId, last.userId)

\* C8: removePetMember(P, U) with U the primary owner of P throws
\* INVALID_OPERATION for every caller who passes the authentication and
\* edit checks, and for no caller does it change the database.
C8_OwnerNotRemovable ==
    \A p \in ExistingPets :
        /\ \A c \in Users :
              canEditPet(DB, p, c) =>
                  removePetMemberHandler(DB, c, p, Owner(p))
                      = Fail("INVALID_OPERATION", DB)
        /\ \A c \in Callers :
              removePetMemberHandler(DB, c, p, Owner(p)).db = DB

\* a guardian who is not the primary owner tries to remove the primary owner,
\* whose membership row exists
C8_Witness ==
    \E p \in ExistingPets, c \in Users :
        /\ c # Owner(p)
        /\ FirstMember(petMembers, p, c).role = "guardian"
        /\ HasRow(p, Owner(p))
        /\ removePetMemberHandler(DB, c, p, Owner(p)).code = "INVALID_OPERATION"

\* C17: no step removes a pets row, and a deletePet or deletePetInternal
\* step changes nothing but the status of its pet, which becomes archived:
\* the slug, the ownerUserId and every petMembers row stay as they were.
C17_NeverHardDeleted ==
    [][/\ Len(pets') >= Len(pets)
       /\ last'.op \in {"deletePet", "deletePetInternal"} =>
              /\ last'.petId \in 1..Len(pets)
              /\ pets' = [pets EXCEPT ![last'.petId].status = "archived"]
              /\ pets'[last'.petId].slug = pets[last'.petId].slug
              /\ pets'[last'.petId].ownerUserId = pets[last'.petId].ownerUserId
              /\ petMembers' = petMembers
              /\ petFiles' = petFiles
              /\ petVaccineRecords' = petVaccineRecords
      ]_vars

\* a pet with a guardian has just been deleted by its owner: its row is
\* archived and the rows of its owner and of the guardian are in place
C17_Witness ==
    /\ last.op = "deletePet"
    /\ pets[last.petId].status = "archived"
    /\ HasRow(last.petId, Owner(last.petId))
    /\ \E u \in Users :
          /\ u # Owner(last.petId)
          /\ FirstMember(petMembers, last.petId, u).role = "guardian"

\* C18: a public mutation that changes a pet's status to archived is called
\* by the pet's primary owner, and deletePet called by any other user who
\* has a membership row on the pet throws UNAUTHORIZED and changes nothing.
C18_OnlyOwnerArchives ==
    \A p \in ExistingPets, c \in Users :
        /\ \A upd \in UpdateArgs({<<>>}, {<<>>, <<"active">>, <<"archived">>},
                                 {<<>>}) :
              LET res == updatePetHandler(DB, c, p, upd) IN
              (pets[p].status # "archived" /\ res.db.pets[p].status = "archived")
                  => c = Owner(p)
        /\ LET res == deletePetHandler(DB, c, p) IN
           /\ (pets[p].status # "archived" /\ res.db.pets[p].status = "archived")
                  => c = Owner(p)
           /\ (c # Owner(p) /\ HasRow(p, c)) => res = Fail("UNAUTHORIZED", DB)

\* C19: the pet a successful createPet inserts has the caller as its
\* ownerUserId.
C19_CreatorIsOwner ==
    \A c \in Users, rnd \in Randoms,
       a \in CreateArgs(Names, {<<>>} \cup {<<u>> : u \in Users}, {<<>>}) :
        LET res == createPetHandler(DB, c, a, rnd) IN
        res.code = "OK" => res.db.pets[Len(pets) + 1].ownerUserId = c

----------------------------------------------------------------------------
(* SpecData: pets with their files and vaccine records, shared and public *)

FileArgs ==
    [petId : PetIds, storageId : {"s1"}, kind : {"photo", "document"},
     docType : {<<>>, << <<"rabies">> >>}, visibility : {<<>>, <<"private">>}]

RecordArgs ==
    [petId : PetIds, administeredAt : {1}, expiresAt : {<<>>, << <<2>> >>},
     documentFileId : {<<>>}]

NextData ==
    \/ \E a \in CreateArgs({Rex}, {<<>>}, {<<>>, <<TRUE>>}), rnd \in Randoms :
          \E c \in Users : createPet(MaxPets, c, a, rnd)
    \/ \E c \in Callers, p \in PetIds,
          u \in UpdateArgs({<<>>}, {<<>>}, {<<TRUE>>, <<FALSE>>}) :
          updatePet(c, p, u)
    \/ \E c \in Callers, p \in PetIds, u \in Users, r \in {"guardian", "viewer"} :
          addPetMember(c, p, u, r)
    \/ uploadFile("s1")
    \/ \E c \in Callers, a \in FileArgs : addPetFile(MaxFiles, c, a)
    \/ \E c \in Callers, a \in RecordArgs : addVaccineRecord(c, a, 3)

SpecData == Init /\ [][NextData]_vars

----------------------------------------------------------------------------
(* Properties of SpecData *)

\* no row of the sequence belongs to pet p
NoRowOf(p, rows) == \A i \in 1..Len(rows) : rows[i].petId # p

NoRelation(p, u) == u # Owner(p) /\ ~HasRow(p, u)

\* C3: for an absent (null) userId canViewPet is true exactly when
\* allowPublic is true and the pet exists with allowPublicProfile true; with
\* allowPublic false it is false even for a public pet.
C3_AnonymousView ==
    \A p \in PetIds, allowPublic \in BOOLEAN :
        canViewPet(DB, p, NoUser, allowPublic) <=>
            (allowPublic /\ PetExists(DB, p) /\ pets[p].allowPublicProfile)

\* a public pet, visible to the anonymous caller only with allowPublic, next
\* to a private pet and an absent pet id
C3_Witness ==
    \E p \in ExistingPets, q \in ExistingPets :
        /\ pets[p].allowPublicProfile /\ ~pets[q].allowPublicProfile
        /\ canViewPet(DB, p, NoUser, TRUE)
        /\ ~canViewPet(DB, p, NoUser, FALSE)
        /\ ~canViewPet(DB, q, NoUser, TRUE)
        /\ \E a \in PetIds : ~PetExists(DB, a) /\ ~canViewPet(DB, a, NoUser, TRUE)

\* C4: a user with no relation to a private pet cannot view it even with
\* allowPublic, and no pet query the user calls, with any arguments, returns
\* the pet's document, its members, a file of it or a vaccine record of it.
C4_PrivatePetUndisclosed ==
    \A p \in ExistingPets, u \in Users :
        (NoRelation(p, u) /\ ~pets[p].allowPublicProfile) =>
            /\ ~canViewPet(DB, p, u, TRUE)
            /\ getPetById(DB, u, p).value = <<>>
            /\ \A q \in ExistingPets :
                  \A i \in DOMAIN getPetBySlug(DB, u, pets[q].slug).value :
                      getPetBySlug(DB, u, pets[q].slug).value[i]._id # p
            /\ getPetMembers(DB, u, p).value = <<>>
            /\ getPetDocuments(DB, u, p).value = <<>>
            /\ getPetVaccineRecords(DB, u, p).value = <<>>
            /\ \A q \in PetIds :
                  /\ NoRowOf(p, getPetDocuments(DB, u, q).value)
                  /\ NoRowOf(p, getPetVaccineRecords(DB, u, q).value)
                  /\ \A ip \in {<<>>, <<TRUE>>, <<FALSE>>} :
                        /\ NoRowOf(p, getPetFiles(DB, u, q, ip).value)
                        /\ \A k \in {"photo", "document"} :
                              NoRowOf(p, getPetFilesByKind(DB, u, q, k, ip).value)
            /\ \A q \in {<<>>} \cup {<<i>> : i \in PetIds},
                  da \in {<<>>, <<0>>}, now \in Times :
                  NoRowOf(p, getUpcomingExpirations(DB, u, q, da, now).value)

\* a private pet with a file and an expiring vaccine record, which its owner
\* is given and an unrelated user is refused
C4_Witness ==
    \E p \in ExistingPets, u \in Users :
        /\ NoRelation(p, u) /\ ~pets[p].allowPublicProfile
        /\ getPetFiles(DB, Owner(p), p, <<TRUE>>).value # <<>>
        /\ getUpcomingExpirations(DB, Owner(p), <<p>>, <<>>, 1).value # <<>>
        /\ getPetById(DB, u, p).code = "UNAUTHORIZED"
        /\ getUpcomingExpirations(DB, u, <<p>>, <<>>, 1).code = "UNAUTHORIZED"
        /\ getUpcomingExpirations(DB, u, <<>>, <<>>, 1).value = <<>>

----------------------------------------------------------------------------
(* SpecSlug: slug allocation over a sequence of creations *)

SlugPetIds == 1..(MaxSlugPets + 1)
SlugRandoms == RandomDraws(SlugSuffix4, SlugSuffix2, Timestamp4)

NextSlug ==
    \/ \E a \in CreateArgs(Names, {<<>>}, {<<>>}), rnd \in SlugRandoms :
          createPet(MaxSlugPets, "u1", a, rnd)
    \/ \E a \in CreateArgs(Names, {<<"u1">>}, {<<>>}), rnd \in SlugRandoms :
          createPetInternal(MaxSlugPets, a, rnd)
    \/ \E c \in Callers, p \in SlugPetIds,
          u \in UpdateArgs({<<>>}, {<<"deceased">>}, {<<>>}) :
          updatePet(c, p, u)
    \/ \E c \in Callers, p \in SlugPetIds : deletePet(c, p)

SpecSlug == Init /\ [][NextSlug]_vars

\* C9: no two pets rows, whatever their status, have the same slug.
C9_SlugsUnique ==
    \A i, j \in 1..Len(pets) : pets[i].slug = pets[j].slug => i = j

----------------------------------------------------------------------------
(* SpecConc: createPet invocations that interleave.  The store of the      *)
(* design executes one read, one index lookup or one insert at a time; a   *)
(* step of an invocation is one store operation of the handler together    *)
(* with the local computation that follows it.                             *)

MaxConcPets == 3

Started == Len(pets) + Cardinality({i \in Procs : inv[i].pc \in {"lookup", "insertPet"}})

\* requireCurrentUser, the validation of the name and generateSlug
createPetBegin(i, caller, args, randomSuffix) ==
    /\ inv[i].pc = "idle"
    /\ Started < MaxConcPets
    /\ caller # NoUser
    /\ Len(args.name) # 0 /\ Len(trim(args.name)) # 0
    /\ Len(args.name) <= MaxNameLength
    /\ inv' = [inv EXCEPT ![i] =
                  [pc |-> "lookup", caller |-> caller,
                   ownerUserId |-> IF args.ownerUserId = <<>> THEN caller
                                   ELSE args.ownerUserId[1],
                   args |-> args,
                   baseSlug |-> generateSlug(trim(args.name), randomSuffix),
                   slug |-> generateSlug(trim(args.name), randomSuffix),
                   attempts |-> 0, petId |-> 0]]
    /\ UNCHANGED <<pets, petMembers, petFiles, petVaccineRecords, storage,
                   platformOwners, last>>

\* a loop that returns the candidate it has just drawn without looking it up
ensureUniqueSlugLookup_ReturnsRetry(i, additionalSuffix, timestamp) ==
    /\ inv[i].pc = "lookup"
    /\ inv' = [inv EXCEPT ![i] =
                  IF FirstPetBySlug(pets, inv[i].slug) = 0
                  THEN [inv[i] EXCEPT !.pc = "insertPet"]
                  ELSE IF inv[i].attempts + 1 < maxAttempts
                  THEN [inv[i] EXCEPT
                           !.slug = inv[i].baseSlug \o <<"-">> \o additionalSuffix,
                           !.attempts = inv[i].attempts + 1,
                           !.pc = "insertPet"]
                  ELSE [inv[i] EXCEPT
                           !.slug = inv[i].baseSlug \o <<"-">> \o timestamp,
                           !.attempts = inv[i].attempts + 1,
                           !.pc = "insertPet"]]
    /\ UNCHANGED <<pets, petMembers, petFiles, petVaccineRecords, storage,
                   platformOwners, last>>

\* a loop that appends the additional suffix to the current candidate
ensureUniqueSlugLookup_AppendsToCandidate(i, additionalSuffix, timestamp) ==
    /\ inv[i].pc = "lookup"
    /\ inv' = [inv EXCEPT ![i] =
                  IF FirstPetBySlug(pets, inv[i].slug) = 0
                  THEN [inv[i] EXCEPT !.pc = "insertPet"]
                  ELSE IF inv[i].attempts + 1 < maxAttempts
                  THEN [inv[i] EXCEPT
                           !.slug = inv[i].slug \o <<"-">> \o additionalSuffix,
                           !.attempts = inv[i].attempts + 1]
                  ELSE [inv[i] EXCEPT
                           !.slug = inv[i].baseSlug \o <<"-">> \o timestamp,
                           !.attempts = inv[i].attempts + 1,
                           !.pc = "insertPet"]]
    /\ UNCHANGED <<pets, petMembers, petFiles, petVaccineRecords, storage,
                   platformOwners, last>>

\* one pass of the loop of ensureUniqueSlug: the by_slug lookup, then either
\* the return of the candidate, or the next candidate, or (after the last
\* collision) the timestamp fallback
ensureUniqueSlugLookup(i, additionalSuffix, timestamp) ==
    /\ inv[i].pc = "lookup"
    /\ inv' = [inv EXCEPT ![i] =
                  IF FirstPetBySlug(pets, inv[i].slug) = 0
                  THEN [inv[i] EXCEPT !.pc = "insertPet"]
                  ELSE IF inv[i].attempts + 1 < maxAttempts
                  THEN [inv[i] EXCEPT
                           !.slug = inv[i].baseSlug \o <<"-">> \o additionalSuffix,
                           !.attempts = inv[i].attempts + 1]
                  ELSE [inv[i] EXCEPT
                           !.slug = inv[i].baseSlug \o <<"-">> \o timestamp,
                           !.attempts = inv[i].attempts + 1,
                           !.pc = "insertPet"]]
    /\ UNCHANGED <<pets, petMembers, petFiles, petVaccineRecords, storage,
                   platformOwners, last>>

\* an insert that allocates again when the slug has been taken meanwhile
createPetInsertPet_Rechecked(i) ==
    /\ inv[i].pc = "insertPet"
    /\ pets' = Append(pets, PetData(inv[i].ownerUserId, inv[i].args,
                   IF FirstPetBySlug(pets, inv[i].slug) = 0 THEN inv[i].slug
                   ELSE inv[i].slug \o <<"-">> \o <<"x", "x">>))
    /\ inv' = [inv EXCEPT ![i].pc = "insertMember", ![i].petId = Len(pets) + 1]
    /\ UNCHANGED <<petMembers, petFiles, petVaccineRecords, storage, platformOwners,
                   last>>

\* ctx.db.insert("pets", petData)
createPetInsertPet(i) ==
    /\ inv[i].pc = "insertPet"
    /\ pets' = Append(pets, PetData(inv[i].ownerUserId, inv[i].args, inv[i].slug))
    /\ inv' = [inv EXCEPT ![i].pc = "insertMember", ![i].petId = Len(pets) + 1]
    /\ UNCHANGED <<petMembers, petFiles, petVaccineRecords, storage, platformOwners,
                   last>>

\* ctx.db.insert("petMembers", ...) and the return of the handler
createPetInsertMember(i) ==
    /\ inv[i].pc = "insertMember"
    /\ petMembers' = InsertMember(petMembers,
           [petId |-> inv[i].petId, userId |-> inv[i].ownerUserId, role |-> "owner"])
    /\ last' = Called("createPet", inv[i].petId, inv[i].ownerUserId, "owner")
    /\ inv' = [inv EXCEPT ![i] = Idle]
    /\ UNCHANGED <<pets, petFiles, petVaccineRecords, storage, platformOwners>>

NextConc ==
    \/ \E i \in Procs, c \in Users, a \in CreateArgs({Rex}, {<<>>}, {<<>>}),
          x \in SlugSuffix4 : createPetBegin(i, c, a, x)
    \/ \E i \in Procs, x \in SlugSuffix2, t \in Timestamp4 :
          ensureUniqueSlugLookup(i, x, t)
    \/ \E i \in Procs : createPetInsertPet(i)
    \/ \E i \in Procs : createPetInsertMember(i)

SpecConc == Init /\ [][NextConc]_vars

C11_LoopReturnsLookedUpCandidate ==
    [][\A i \in Procs :
          (inv[i].pc = "lookup" /\ inv'[i].pc = "insertPet"
           /\ inv'[i].attempts < maxAttempts) =>
              /\ inv'[i].slug = inv[i].slug
              /\ FirstPetBySlug(pets, inv[i].slug) = 0
              /\ inv[i].attempts = 0 => inv'[i].slug = inv[i].baseSlug
      ]_vars

\* one invocation returned its base candidate from the first lookup, the
\* other returned a retry candidate that its lookup found absent
C11_Witness ==
    \E i \in Procs, j \in Procs :
        /\ inv[i].pc = "insertPet" /\ inv[i].attempts = 0
        /\ inv[i].slug = inv[i].baseSlug
        /\ inv[j].pc = "insertPet" /\ inv[j].attempts \in 1..(maxAttempts - 1)
        /\ inv[j].slug # inv[j].baseSlug
        /\ FirstPetBySlug(pets, inv[j].slug) = 0

\* C12: ensureUniqueSlug makes at most maxAttempts (5) lookups.  A lookup
\* writes nothing; a collision in one of the first four lookups makes the
\* candidate the original base slug, a hyphen and a new 2-character suffix
\* and leads to the next lookup; a collision in the fifth lookup returns the
\* base slug, a hyphen and the timestamp suffix with no further lookup.
C12_AtMostFiveLookups ==
    [][\A i \in Procs :
          (inv[i].pc = "lookup" /\ inv'[i] # inv[i]) =>
              /\ inv[i].attempts < maxAttempts
              /\ inv'[i].baseSlug = inv[i].baseSlug
              /\ pets' = pets /\ petMembers' = petMembers
              /\ IF FirstPetBySlug(pets, inv[i].slug) = 0
                 THEN inv'[i].pc = "insertPet" /\ inv'[i].attempts = inv[i].attempts
                 ELSE /\ inv'[i].attempts = inv[i].attempts + 1
                      /\ IF inv[i].attempts + 1 < maxAttempts
                         THEN /\ inv'[i].pc = "lookup"
                              /\ \E x \in SlugSuffix2 :
                                    inv'[i].slug = inv[i].baseSlug \o <<"-">> \o x
                         ELSE /\ inv'[i].pc = "insertPet"
                              /\ \E t \in Timestamp4 :
                                    inv'[i].slug = inv[i].baseSlug \o <<"-">> \o t
      ]_vars

\* five lookups collided and the invocation holds the timestamp-suffixed slug
C12_Witness ==
    \E i \in Procs :
        /\ inv[i].pc = "insertPet"
        /\ inv[i].attempts = maxAttempts
        /\ \E t \in Timestamp4 : inv[i].slug = inv[i].baseSlug \o <<"-">> \o t

----------------------------------------------------------------------------
(* SpecNames: the slugs of pets created from names of every shape *)

Symbols == <<"!", " ", "_">>
Dashes == <<"-", "-">>
Mixed == <<" ", "-", "A", "_", " ", "1", "!", "-">>
HyphenAt50 == [i \in 1..(MaxSlugLength + 5) |-> IF i = MaxSlugLength THEN "-" ELSE "a"]
MaxName == [i \in 1..MaxNameLength |-> "Z"]
NameInputs == Names \cup {Symbols, Dashes, Mixed, HyphenAt50, MaxName}

NameRandoms == RandomDraws(SlugSuffix4, Suffix2, Timestamp4)

NextNames ==
    \/ \E c \in Callers, a \in CreateArgs(NameInputs, {<<>>}, {<<>>}),
          rnd \in NameRandoms : createPet(MaxPets, c, a, rnd)
    \/ \E a \in CreateArgs(NameInputs, {<<"u2">>}, {<<>>}), rnd \in NameRandoms :
          createPetInternal(MaxPets, a, rnd)

SpecNames == Init /\ [][NextNames]_vars

\* no character of the name is a letter or a digit
AllStripped(name) ==
    \A i \in 1..Len(name) :
        /\ name[i] \notin DigitChars
        /\ \A k \in 1..26 : name[i] # UpperCase[k] /\ name[i] # LowerCase[k]

\* the suffixes ensureUniqueSlug can append to the base candidate
CollisionTails(rnd) ==
    {<<>>, <<"-">> \o rnd.timestamp}
        \cup {<<"-">> \o rnd.retries[k] : k \in 1..maxAttempts}

\* the slug is non-empty, of characters in [a-z0-9-], and is a base part of
\* at most 50 characters without leading or trailing hyphen, a hyphen, the
\* 4-character suffix and possibly a collision suffix
WellFormedSlug(slug, rnd) ==
    /\ slug # <<>>
    /\ \A i \in 1..Len(slug) : slug[i] \in SlugChars
    /\ \E n \in 0..MaxSlugLength, rest \in CollisionTails(rnd) :
          /\ n <= Len(slug)
          /\ slug = SubSeq(slug, 1, n) \o <<"-">> \o rnd.suffix \o rest
          /\ n > 0 => slug[1] # "-" /\ slug[n] # "-"

\* the slug createPet stores for the name, <<>> when the call throws
StoredSlug(name, rnd) ==
    LET res == createPetHandler(DB, "u1",
                   [name |-> name, ownerUserId |-> <<>>, shareSettings |-> <<>>,
                    contacts |-> <<>>, primaryPhotoFileId |-> <<>>], rnd)
    IN IF res.code = "OK" THEN res.db.pets[Len(pets) + 1].slug ELSE <<>>

Accepted(name) == Len(trim(name)) > 0 /\ Len(name) <= MaxNameLength

\* C13 as stated: the slug stored for an accepted name is well formed, and
\* for a name whose characters are all stripped it is just a hyphen followed
\* by the 4-character suffix.
C13_StoredSlugFormat ==
    \A name \in NameInputs, rnd \in NameRandoms :
        Accepted(name) =>
            /\ WellFormedSlug(StoredSlug(name, rnd), rnd)
            /\ AllStripped(name) => StoredSlug(name, rnd) = <<"-">> \o rnd.suffix

\* C13 (amended): the slug stored for an accepted name is well formed; for a
\* name whose characters are all stripped the base candidate is just a
\* hyphen followed by the 4-character suffix, and the stored slug is this
\* candidate, followed by a collision suffix only when a pet already has it.
C13_StoredSlugFormatUnlessTaken ==
    \A name \in NameInputs, rnd \in NameRandoms :
        Accepted(name) =>
            /\ WellFormedSlug(StoredSlug(name, rnd), rnd)
            /\ AllStripped(name) =>
                  /\ generateSlug(trim(name), rnd.suffix) = <<"-">> \o rnd.suffix
                  /\ \E rest \in CollisionTails(rnd) :
                        /\ StoredSlug(name, rnd) = <<"-">> \o rnd.suffix \o rest
                        /\ rest # <<>> =>
                              FirstPetBySlug(pets, <<"-">> \o rnd.suffix) # 0

\* a pet of an all-stripped name with the slug -aaaa next to a pet whose
\* name has its 50th character a hyphen and whose base part is 49 characters
C13_Witness ==
    \E p \in ExistingPets, q \in ExistingPets :
        /\ pets[p].name = Symbols
        /\ pets[p].slug = <<"-", "a", "a", "a", "a">>
        /\ pets[q].name = HyphenAt50
        /\ \E x \in SlugSuffix4 :
              pets[q].slug = [i \in 1..(MaxSlugLength - 1) |-> "a"] \o <<"-">> \o x

----------------------------------------------------------------------------
(* SpecOps: one owner's pets with their members, files, vaccine records    *)
(* and contacts, under every mutation of a pet's sub-resources             *)

MaxOpsPets == 1
MaxOpsContacts == 1

OpsPetIds == 1..(MaxOpsPets + 1)
FileIds == 1..(MaxFiles + 1)        \* v.id("petFiles") arguments
RecordIds == 1..(MaxRecords + 1)    \* v.id("petVaccineRecords") arguments
ContactIndexes == 0..MaxOpsContacts

ContactArgs == {[name |-> "Vet", preferred |-> TRUE]}
ContactUpdates == [name : {<<>>, <<"Ann">>}, preferred : {<<>>, <<FALSE>>}]

OpsFileArgs ==
    [petId : OpsPetIds, storageId : {"s1"}, kind : {"photo", "document"},
     docType : {<<>>, << <<"rabies">> >>}, visibility : {<<>>}]

RemoveFileArgs ==
    [petId : OpsPetIds, fileId : FileIds, deleteStorage : {<<>>, <<TRUE>>}]

OpsRecordArgs ==
    [petId : OpsPetIds, administeredAt : {1}, expiresAt : {<<>>, << <<2>> >>},
     documentFileId : {<<>>}]

RecordUpdates ==
    [administeredAt : {<<>>}, expiresAt : {<<>>, << <<>> >>, << <<3>> >>},
     documentFileId : {<<>>}]

NextOps ==
    \/ \E a \in CreateArgs({Rex}, {<<>>}, {<<>>}), rnd \in Randoms :
          createPet(MaxOpsPets, "u1", a, rnd)
    \/ \E c \in Callers, p \in OpsPetIds, r \in {"guardian", "viewer"} :
          addPetMember(c, p, "u2", r)
    \/ uploadFile("s1")
    \/ \E c \in Callers, a \in OpsFileArgs : addPetFile(MaxFiles, c, a)
    \/ \E c \in Callers, a \in RemoveFileArgs : removePetFile(c, a)
    \/ \E c \in Callers, f \in FileIds, v \in {"public", "private"} :
          updateFileVisibility(c, f, v)
    \/ \E c \in Callers, p \in OpsPetIds : setPrimaryPhoto(c, p, "s1")
    \/ \E c \in Callers, a \in OpsRecordArgs : addVaccineRecord(c, a, 3)
    \/ \E c \in Callers, r \in RecordIds, u \in RecordUpdates :
          updateVaccineRecord(c, r, u, 3)
    \/ \E c \in Callers, r \in RecordIds : deleteVaccineRecord(c, r)
    \/ \E c \in Callers, p \in OpsPetIds, k \in ContactArgs :
          addPetContact(MaxOpsContacts, c, p, k)
    \/ \E c \in Callers, p \in OpsPetIds, i \in ContactIndexes, u \in ContactUpdates :
          updatePetContact(c, p, i, u)
    \/ \E c \in Callers, p \in OpsPetIds, i \in ContactIndexes :
          removePetContact(c, p, i)

SpecOps == Init /\ [][NextOps]_vars

----------------------------------------------------------------------------
(* Properties of SpecOps *)

\* every call has the given outcome: the mutations that take a petId,
\* called by the user on the pet with every argument of the model
PetCallsAll(p, u, outcome) ==
    /\ \A upd \in UpdateArgs({<<>>, <<Rex>>}, {<<>>, <<"archived">>},
                             {<<>>, <<TRUE>>}) :
          updatePetHandler(DB, u, p, upd) = outcome
    /\ \A v \in Users, r \in Roles :
          /\ addPetMemberHandler(DB, u, p, v, r) = outcome
          /\ updatePetMemberRoleHandler(DB, u, p, v, r) = outcome
    /\ \A v \in Users : removePetMemberHandler(DB, u, p, v) = outcome
    /\ \A s \in StorageIds : setPrimaryPhotoHandler(DB, u, p, s) = outcome
    /\ \A k \in ContactArgs : addPetContactHandler(DB, u, p, k) = outcome
    /\ \A i \in ContactIndexes :
          /\ removePetContactHandler(DB, u, p, i) = outcome
          /\ \A upd \in ContactUpdates :
                updatePetContactHandler(DB, u, p, i, upd) = outcome
    /\ \A s \in StorageIds, k \in {"photo", "document"},
          dt \in {<<>>, << <<"rabies">> >>} :
          addPetFileHandler(DB, u,
              [petId |-> p, storageId |-> s, kind |-> k, docType |-> dt,
               visibility |-> <<>>]) = outcome
    /\ \A f \in FileIds, ds \in {<<>>, <<TRUE>>} :
          removePetFileHandler(DB, u,
              [petId |-> p, fileId |-> f, deleteStorage |-> ds]) = outcome
    /\ \A t \in Times, e \in {<<>>, << <<3>> >>} :
          addVaccineRecordHandler(DB, u,
              [petId |-> p, administeredAt |-> t, expiresAt |-> e,
               documentFileId |-> <<>>], 3) = outcome

\* the mutations that take the id of a file or of a vaccine record
FileCallsAll(f, u, outcome) ==
    \A v \in {"public", "private"} :
        updateFileVisibilityHandler(DB, u, f, v) = outcome

RecordCallsAll(r, u, outcome) ==
    /\ deleteVaccineRecordHandler(DB, u, r) = outcome
    /\ \A upd \in RecordUpdates :
          updateVaccineRecordHandler(DB, u, r, upd, 3) = outcome

AbsentPets == {p \in OpsPetIds : ~PetExists(DB, p)}

\* C14: a mutation that takes a petId, called by an authenticated user with
\* a petId that resolves to no document, fails with NOT_FOUND (and not with
\* UNAUTHORIZED).
C14_AbsentPetNotFound ==
    \A p \in AbsentPets, u \in Users : PetCallsAll(p, u, Fail("NOT_FOUND", DB))

\* C15: every public mutation called with no identity fails with
\* UNAUTHENTICATED, whatever its arguments and whatever the tables hold, and
\* leaves every table unchanged.
C15_AnonymousUnauthenticated ==
    /\ \A a \in CreateArgs(NameInputs, {<<>>} \cup {<<u>> : u \in Users},
                           {<<>>, <<TRUE>>}), rnd \in Randoms :
          createPetHandler(DB, NoUser, a, rnd) = Fail("UNAUTHENTICATED", DB)
    /\ \A p \in OpsPetIds :
          /\ deletePetHandler(DB, NoUser, p) = Fail("UNAUTHENTICATED", DB)
          /\ PetCallsAll(p, NoUser, Fail("UNAUTHENTICATED", DB))
    /\ \A f \in FileIds : FileCallsAll(f, NoUser, Fail("UNAUTHENTICATED", DB))
    /\ \A r \in RecordIds : RecordCallsAll(r, NoUser, Fail("UNAUTHENTICATED", DB))

\* a pet with a member, a file, a vaccine record and a contact, on which the
\* anonymous calls are refused
C15_Witness ==
    /\ PetExists(DB, 1) /\ HasRow(1, "u2")
    /\ FileExists(DB, 1) /\ RecordExists(DB, 1)
    /\ Len(pets[1].contacts) = 1
    /\ removePetFileHandler(DB, NoUser,
           [petId |-> 1, fileId |-> 1, deleteStorage |-> <<TRUE>>]).code
         = "UNAUTHENTICATED"
    /\ deleteVaccineRecordHandler(DB, NoUser, 1).code = "UNAUTHENTICATED"

\* C16: a mutation that targets an existing pet or a file or vaccine record
\* of it, called by an authenticated user who cannot edit the pet, fails
\* with UNAUTHORIZED and leaves every table unchanged.
C16_NonEditorUnauthorized ==
    \A p \in ExistingPets, u \in Users :
        ~canEditPet(DB, p, u) =>
            /\ PetCallsAll(p, u, Fail("UNAUTHORIZED", DB))
            /\ \A f \in FileIds :
                  (FileExists(DB, f) /\ petFiles[f].petId = p) =>
                      FileCallsAll(f, u, Fail("UNAUTHORIZED", DB))
            /\ \A r \in RecordIds :
                  (RecordExists(DB, r) /\ petVaccineRecords[r].petId = p) =>
                      RecordCallsAll(r, u, Fail("UNAUTHORIZED", DB))

\* a viewer of a pet that has a file, a vaccine record and a contact is
\* refused the removal of each
C16_Witness ==
    \E p \in ExistingPets, u \in Users :
        /\ FirstMember(petMembers, p, u).role = "viewer"
        /\ ~canEditPet(DB, p, u)
        /\ \E f \in FileIds : FileExists(DB, f) /\ petFiles[f].petId = p
        /\ \E r \in RecordIds :
              /\ RecordExists(DB, r) /\ petVaccineRecords[r].petId = p
              /\ deleteVaccineRecordHandler(DB, u, r).code = "UNAUTHORIZED"
        /\ Len(pets[p].contacts) = 1
        /\ removePetContactHandler(DB, u, p, 0).code = "UNAUTHORIZED"

----------------------------------------------------------------------------
(* SpecAdmin: the platformOwners table under setPlatformOwner *)

AdminUserIds == Users \cup {"u3", "u4"}      \* args.userId: v.string()

NextAdmin ==
    \/ \E u \in AdminUserIds : setPlatformOwner(u, TRUE)
    \/ \E u \in AdminUserIds : setPlatformOwner(u, FALSE)

SpecAdmin == Init /\ [][NextAdmin]_vars

\* C20: platformOwners holds at most one row per userId.  A call of
\* setPlatformOwner succeeds, makes isPlatformOwner of its userId equal to
\* its isOwner and leaves isPlatformOwner of every other user as it was, so
\* that isPlatformOwner(U) is the isOwner of the last call for U; a call that
\* asks for what already holds leaves the table unchanged.
C20_OnePlatformOwnerRow ==
    /\ \A i, j \in 1..Len(platformOwners) :
          platformOwners[i].userId = platformOwners[j].userId => i = j
    /\ ~isPlatformOwner(DB, NoUser)
    /\ last.op = "setPlatformOwner" =>
          (isPlatformOwner(DB, last.userId) <=> last.role = "owner")
    /\ \A u \in AdminUserIds, isOwner \in BOOLEAN :
          LET res == setPlatformOwnerHandler(DB, u, isOwner) IN
          /\ res.code = "OK"
          /\ isPlatformOwner(res.db, u) <=> isOwner
          /\ \A v \in AdminUserIds \ {u} :
                isPlatformOwner(res.db, v) <=> isPlatformOwner(DB, v)
          /\ (isPlatformOwner(DB, u) <=> isOwner) => res.db = DB

\* u2 and then u1 were made platform owners; adding u1 once more reports
\* already_exists and removing u3, who is none, reports not_found
C20_Witness ==
    /\ last = Called("setPlatformOwner", 0, "u1", "owner")
    /\ platformOwners = <<[userId |-> "u2"], [userId |-> "u1"]>>
    /\ setPlatformOwnerHandler(DB, "u1", TRUE).action = "already_exists"
    /\ setPlatformOwnerHandler(DB, "u3", FALSE).action = "not_found"

----------------------------------------------------------------------------
(* Error kinds of the pet queries, over the states of SpecData *)

\* C21: UNAUTHORIZED is signalled only when an identity is present, the
\* resource exists and the capability check failed; getPetById and
\* getPetBySlug called with no identity on a private pet are answered with
\* UNAUTHENTICATED.
C21_UnauthorizedNeedsIdentity ==
    \A c \in Callers, p \in PetIds :
        /\ getPetById(DB, c, p).code = "UNAUTHORIZED" =>
              (c # NoUser /\ PetExists(DB, p) /\ ~canViewPet(DB, p, c, FALSE))
        /\ (PetExists(DB, p) /\ getPetBySlug(DB, c, pets[p].slug).code = "UNAUTHORIZED")
              => c # NoUser
        /\ (c = NoUser /\ PetExists(DB, p) /\ ~isPublicPet(pets[p])) =>
              /\ getPetById(DB, c, p).code = "UNAUTHENTICATED"
              /\ getPetBySlug(DB, c, pets[p].slug).code = "UNAUTHENTICATED"

\* C22: for a caller who cannot view it, an existing private pet is
\* indistinguishable from an absent one: getPetById and getPetBySlug give
\* the caller the same outcome for the private pet as for an id or a slug
\* that resolves to no pet.
C22_PrivatePetLooksAbsent ==
    \A c \in Callers, p \in ExistingPets :
        (~isPublicPet(pets[p]) /\ ~canViewPet(DB, p, c, FALSE)) =>
            /\ \A a \in PetIds :
                  ~PetExists(DB, a) => getPetById(DB, c, p) = getPetById(DB, c, a)
            /\ \A s \in {<<"n", "o">>, SubSeq(pets[p].slug, 1, 3)} :
                  FirstPetBySlug(pets, s) = 0 =>
                      getPetBySlug(DB, c, pets[p].slug) = getPetBySlug(DB, c, s)

----------------------------------------------------------------------------
(* SpecVaccines: the vaccine records of an owner's pets, added, updated    *)
(* and deleted by the owner and a member with every ordering of the dates  *)

VaccineNow == 2     \* Date.now() of the calls; dates are drawn from Times

VaccineDates == {<<>>, << <<>> >>} \cup {<< <<t>> >> : t \in Times}

VaccineArgs ==
    [petId : PetIds, administeredAt : Times, expiresAt : VaccineDates,
     documentFileId : {<<>>}]

VaccineUpdates ==
    [administeredAt : {<<>>} \cup {<<t>> : t \in Times},
     expiresAt : VaccineDates, documentFileId : {<<>>}]

NextVaccines ==
    \/ \E a \in CreateArgs({Rex}, {<<>>}, {<<>>}), rnd \in Randoms :
          createPet(MaxPets, "u1", a, rnd)
    \/ \E c \in Callers, p \in PetIds, r \in {"guardian", "viewer"} :
          addPetMember(c, p, "u2", r)
    \/ \E c \in Callers, a \in VaccineArgs : addVaccineRecord(c, a, VaccineNow)
    \/ \E c \in Callers, r \in RecordIds, u \in VaccineUpdates :
          updateVaccineRecord(c, r, u, VaccineNow)
    \/ \E c \in Callers, r \in RecordIds : deleteVaccineRecord(c, r)

SpecVaccines == Init /\ [][NextVaccines]_vars

\* the editors of the pet of an existing vaccine record
RecordEditors(r) ==
    {u \in Users : RecordExists(DB, r)
                   /\ canEditPet(DB, petVaccineRecords[r].petId, u)}

\* C23: updateVaccineRecord by an editor with updates.expiresAt = null and
\* otherwise valid fields succeeds and stores expiresAt = null whatever
\* expiry was stored before; with updates.expiresAt omitted the stored
\* expiry is kept.
C23_NullClearsOmittedKeeps ==
    \A r \in RecordIds : \A u \in RecordEditors(r) :
        \A adm \in {<<>>} \cup {<<t>> : t \in 1..VaccineNow} :
            LET cleared == updateVaccineRecordHandler(DB, u, r,
                               [administeredAt |-> adm, expiresAt |-> << <<>> >>,
                                documentFileId |-> <<>>], VaccineNow)
                kept == updateVaccineRecordHandler(DB, u, r,
                            [administeredAt |-> adm, expiresAt |-> <<>>,
                             documentFileId |-> <<>>], VaccineNow)
            IN /\ cleared.code = "OK"
               /\ cleared.db.petVaccineRecords[r].expiresAt = <<>>
               /\ kept.db.petVaccineRecords[r].expiresAt
                    = petVaccineRecords[r].expiresAt

----------------------------------------------------------------------------
(* The resolver on absent pets, over the states of SpecData *)

\* C24: the membership resolver is total: for a pet id that resolves to no
\* document getPetMembership returns role null with isPrimaryOwner false for
\* every user, canEditPet returns false, and canViewPet returns false for
\* every value of allowPublic and for an absent user as well.
C24_ResolverTotalOnAbsentPet ==
    \A p \in PetIds :
        ~PetExists(DB, p) =>
            /\ \A u \in Callers :
                  /\ getPetMembership(DB, p, u)
                       = [role |-> NoRole, isPrimaryOwner |-> FALSE]
                  /\ canEditPet(DB, p, u) = FALSE
                  /\ \A allowPublic \in BOOLEAN :
                        canViewPet(DB, p, u, allowPublic) = FALSE

\* a public pet with a member, seen by the anonymous caller on the public
\* path, next to an absent pet id which neither the owner nor the member nor
\* the anonymous caller can view
C24_Witness ==
    \E p \in ExistingPets, a \in PetIds, m \in Users :
        /\ ~PetExists(DB, a)
        /\ pets[p].allowPublicProfile /\ HasRow(p, m) /\ m # Owner(p)
        /\ canViewPet(DB, p, NoUser, TRUE) /\ canViewPet(DB, p, m, FALSE)
        /\ getPetMembership(DB, p, Owner(p)).isPrimaryOwner
        /\ ~canViewPet(DB, a, NoUser, TRUE) /\ ~canViewPet(DB, a, m, TRUE)
        /\ getPetMembership(DB, a, Owner(p)).role = NoRole

----------------------------------------------------------------------------
(* SpecContacts: the emergency contacts of an owner's pets, given at       *)
(* creation, replaced by updatePet and edited one at a time                *)

Contacts(n) == [i \in 1..n |-> [name |-> "Vet", preferred |-> TRUE]]

\* args.contacts / args.updates.contacts: v.optional(v.array(...))
ContactLists == {<<>>, <<Contacts(2)>>, <<Contacts(MaxContactsPerPet + 1)>>}

ContactPositions == 0..MaxContactsPerPet

ContactRenames == [name : {<<"Ann">>}, preferred : {<<>>}]

Bella == <<" ", "B", "e", "l", "l", "a">>      \* args.updates.name

NextContacts ==
    \/ \E a \in CreateArgs({Rex}, {<<>>}, {<<>>}), k \in ContactLists,
          rnd \in Randoms :
          createPet(MaxOpsPets, "u1", [a EXCEPT !.contacts = k], rnd)
    \/ \E c \in Callers, p \in OpsPetIds, k \in ContactLists,
          u \in UpdateArgs({<<>>, <<Bella>>}, {<<>>}, {<<>>}) :
          updatePet(c, p, [u EXCEPT !.contacts = k])
    \/ \E c \in Callers, p \in OpsPetIds, k \in ContactArgs :
          addPetContact(MaxContactsPerPet, c, p, k)
    \/ \E c \in Callers, p \in OpsPetIds, i \in ContactPositions,
          u \in ContactRenames :
          updatePetContact(c, p, i, u)
    \/ \E c \in Callers, p \in OpsPetIds, i \in ContactPositions :
          removePetContact(c, p, i)

SpecContacts == Init /\ [][NextContacts]_vars

\* C25: every pet has at most 5 contacts; addPetContact on a pet that
\* already has 5 fails with VALIDATION_ERROR and leaves the contacts
\* unchanged.
C25_AtMostFiveContacts ==
    \A p \in ExistingPets :
        /\ Len(pets[p].contacts) <= MaxContactsPerPet
        /\ Len(pets[p].contacts) = MaxContactsPerPet =>
              \A k \in ContactArgs :
                  addPetContactHandler(DB, Owner(p), p, k)
                      = Fail("VALIDATION_ERROR", DB)


\* the number of an optional nullable date, 0 when it is omitted or null
DateOf(x) == IF x = <<>> \/ x = << <<>> >> THEN 0 ELSE x[1][1]

\* the dates a vaccine record has after ctx.db.patch(recordId, updates)
PatchedDates(record, updates) ==
    [administeredAt |-> IF updates.administeredAt = <<>>
                        THEN record.administeredAt
                        ELSE updates.administeredAt[1],
     expiresAt |-> IF updates.expiresAt = <<>> THEN record.expiresAt
                   ELSE updates.expiresAt[1]]

\* the row has an expiry that is not after its administration date
ExpiryNotAfter(row) ==
    row.expiresAt # <<>> /\ row.expiresAt[1] <= row.administeredAt

\* C26: every petVaccineRecords row with a non-null expiresAt has expiresAt
\* strictly greater than administeredAt; a call of addVaccineRecord or
\* updateVaccineRecord by an editor that would store a row violating this
\* fails with VALIDATION_ERROR and changes no row.
C26_ExpiryAfterAdministered ==
    /\ \A r \in 1..Len(petVaccineRecords) :
          RecordExists(DB, r) => ~ExpiryNotAfter(petVaccineRecords[r])
    /\ \A a \in VaccineArgs, u \in Users :
          (canEditPet(DB, a.petId, u) /\ DateOf(a.expiresAt) # 0
              /\ DateOf(a.expiresAt) <= a.administeredAt) =>
              addVaccineRecordHandler(DB, u, a, VaccineNow)
                  = Fail("VALIDATION_ERROR", DB)
    /\ \A r \in RecordIds : \A u \in RecordEditors(r), upd \in VaccineUpdates :
          ExpiryNotAfter(PatchedDates(petVaccineRecords[r], upd)) =>
              updateVaccineRecordHandler(DB, u, r, upd, VaccineNow)
                  = Fail("VALIDATION_ERROR", DB)

\* a record administered at 2 and expiring at 3 after an update that moved
\* the administration date; moving it on to the expiry date, or the expiry
\* back to it, is refused
C26_Witness ==
    \E r \in RecordIds : \E u \in RecordEditors(r) :
        /\ last.op = "updateVaccineRecord"
        /\ petVaccineRecords[r].administeredAt = 2
        /\ petVaccineRecords[r].expiresAt = <<3>>
        /\ updateVaccineRecordHandler(DB, u, r,
               [administeredAt |-> <<>>, expiresAt |-> << <<2>> >>,
                documentFileId |-> <<>>], 3).code = "VALIDATION_ERROR"
        /\ updateVaccineRecordHandler(DB, u, r,
               [administeredAt |-> <<3>>, expiresAt |-> <<>>,
                documentFileId |-> <<>>], 3).code = "VALIDATION_ERROR"
        /\ addVaccineRecordHandler(DB, u,
               [petId |-> petVaccineRecords[r].petId, administeredAt |-> 2,
                expiresAt |-> << <<2>> >>, documentFileId |-> <<>>],
               VaccineNow).code = "VALIDATION_ERROR"

----------------------------------------------------------------------------
(* The member list of a pet, over the states of Spec *)

\* C27: the list returned by getPetMembers contains each user id at most
\* once, and exactly one entry with isPrimaryOwner = true, whose userId is
\* the pet's ownerUserId.
C27_MemberListDistinct ==
    \A p \in ExistingPets, c \in Users :
        LET res == getPetMembers(DB, c, p) IN
        res.code = "OK" =>
            /\ \A i, j \in DOMAIN res.value :
                  res.value[i].userId = res.value[j].userId => i = j
            /\ \E i \in DOMAIN res.value :
                  /\ res.value[i].isPrimaryOwner
                  /\ res.value[i].userId = pets[p].ownerUserId
                  /\ \A j \in DOMAIN res.value :
                        res.value[j].isPrimaryOwner => j = i

----------------------------------------------------------------------------
(* SpecFiles: the pets of two users with their files, their primary photo  *)
(* and the storage the files are kept in                                   *)

MaxFileRows == 2

FileRowIds == 1..(MaxFileRows + 1)      \* v.id("petFiles") arguments

PhotoIds == {<<>>} \cup {<<s>> : s \in StorageIds}   \* v.optional(v.id("_storage"))

AddFileArgs ==
    [petId : PetIds, storageId : StorageIds, kind : {"photo", "document"},
     docType : {<<>>, << <<"rabies">> >>}, visibility : {<<>>}]

RemoveArgs ==
    [petId : PetIds, fileId : FileRowIds, deleteStorage : {<<>>, <<TRUE>>}]

NextFiles ==
    \/ \E c \in Users, a \in CreateArgs({Rex}, {<<>>}, {<<>>}), ph \in PhotoIds,
          rnd \in Randoms :
          createPet(MaxPets, c, [a EXCEPT !.primaryPhotoFileId = ph], rnd)
    \/ \E c \in Callers, p \in PetIds, ph \in PhotoIds,
          u \in UpdateArgs({<<>>}, {<<>>}, {<<>>}) :
          updatePet(c, p, [u EXCEPT !.primaryPhotoFileId = ph])
    \/ \E s \in StorageIds : uploadFile(s)
    \/ \E c \in Callers, a \in AddFileArgs : addPetFile(MaxFileRows, c, a)
    \/ \E c \in Callers, p \in PetIds, s \in StorageIds : setPrimaryPhoto(c, p, s)
    \/ \E c \in Callers, a \in RemoveArgs : removePetFile(c, a)

SpecFiles == Init /\ [][NextFiles]_vars

\* the petFiles rows linked to the pet
FilesOf(d, p) == {f \in 1..Len(d.petFiles) : d.petFiles[f].petId = p}

\* C28: a pet's primaryPhotoFileId, when set, is the storage id of some
\* petFiles row linked to that pet; after removePetFile removes the row
\* holding the primary photo, primaryPhotoFileId is the file of another
\* remaining photo row of that pet if one exists and is unset otherwise.
C28_PrimaryPhotoIsPetFile ==
    /\ \A p \in ExistingPets :
          pets[p].primaryPhotoFileId # <<>> =>
              \E f \in FilesOf(DB, p) :
                  petFiles[f].fileId = pets[p].primaryPhotoFileId[1]
    /\ \A u \in Users, a \in RemoveArgs :
          LET res == removePetFileHandler(DB, u, a)
              others == {f \in FilesOf(DB, a.petId) \ {a.fileId} :
                            petFiles[f].kind = "photo"}
          IN (res.code = "OK"
                /\ pets[a.petId].primaryPhotoFileId = <<petFiles[a.fileId].fileId>>)
              => IF others = {}
                 THEN res.db.pets[a.petId].primaryPhotoFileId = <<>>
                 ELSE \E f \in others :
                         res.db.pets[a.petId].primaryPhotoFileId
                             = <<petFiles[f].fileId>>


\* C29: a user without edit capability on pet P cannot cause the deletion
\* of a storage file that a petFiles row of P references: in every state,
\* those the user's own addPetFile calls lead to included, no removePetFile
\* call of the user, deleteStorage = true included, removes from the storage
\* a file a row of P is linked to.
C29_NoForeignBlobDeletion ==
    \A p \in ExistingPets, u \in Users :
        ~canEditPet(DB, p, u) =>
            \A a \in RemoveArgs :
                LET res == removePetFileHandler(DB, u, a) IN
                \A f \in FilesOf(DB, p) :
                    petFiles[f].fileId \in storage =>
                        petFiles[f].fileId \in res.db.storage

----------------------------------------------------------------------------
(* The frame of updatePet, over the states of SpecContacts *)

\* every updates object of the model: names that are accepted and names that
\* are refused, a status, share settings, contacts and a primary photo
AllPetUpdates ==
    {[u EXCEPT !.contacts = k, !.primaryPhotoFileId = ph] :
        u \in UpdateArgs({<<>>, <<Bella>>, <<Rex>>, <<Blank>>, <<LongName>>},
                         {<<>>, <<"archived">>}, {<<>>, <<TRUE>>}),
        k \in ContactLists, ph \in PhotoIds}

\* C30: updatePet never changes a pet's slug or ownerUserId: after every
\* call, successful or failed, with any accepted updates object (a changed
\* name included), every pet has the slug and the ownerUserId it had before,
\* and no petMembers row is added, removed or changed.
C30_UpdateKeepsSlugAndOwner ==
    \A c \in Callers, p \in OpsPetIds, u \in AllPetUpdates :
        LET res == updatePetHandler(DB, c, p, u) IN
        /\ res.db.petMembers = petMembers
        /\ Len(res.db.pets) = Len(pets)
        /\ \A q \in ExistingPets :
              /\ res.db.pets[q].slug = pets[q].slug
              /\ res.db.pets[q].ownerUserId = pets[q].ownerUserId
        /\ res.code # "OK" => res.db = DB

\* a pet created as Rex was renamed by updatePet and still has the slug of
\* its first name, its owner and the owner's membership row
C30_Witness ==
    \E p \in ExistingPets :
        /\ last.op = "updatePet" /\ last.petId = p
        /\ pets[p].name = trim(Bella)
        /\ pets[p].slug = generateSlug(Rex, <<"a", "a", "a", "a">>)
        /\ Owner(p) = "u1" /\ HasRow(p, "u1")
        /\ updatePetHandler(DB, "u1", p,
               [name |-> <<Rex>>, status |-> <<>>, shareSettings |-> <<>>,
                contacts |-> <<>>, primaryPhotoFileId |-> <<>>]).code = "OK"

=============================================================================
